---- MODULE Spec2Model ----
(***************************************************************************)
(* The public endpoint (P) of the TunnelEngine reverse tunnel: the         *)
(* supervisor loop of main, the per-listener acceptor goroutines and the   *)
(* per-connection handler goroutines, for both definitions of main that    *)
(* src/unnamed/part_001 holds:                                             *)
(*   rev 1: lines  80-258 (always multiplexed, no concurrency cap,         *)
(*          handleStream copier, supervisor waits on stopChan);            *)
(*   rev 2: lines 327-536 (concurrency cap, inline copier, the multiplexed *)
(*          branch falls through to the top of the loop).                  *)
(* and the private endpoint (R), main of src/reverse/client/client.go in   *)
(* multiplexed mode: its supervisor loop, stream accept loop and           *)
(* per-stream handler goroutines. Each endpoint is run with the other one, *)
(* the external users, the local services, the network and the yamux       *)
(* library as its environment.                                             *)
(***************************************************************************)
EXTENDS Integers, FiniteSets, Sequences, TLC

\* ------------------------------------------------------------------ bounds
MaxIter == 2
MaxUsers == 2
MaxAddr == 1
MaxSpliceAddr == 2
MaxCap == 1
MaxStreams == 3
MaxTargets == 2
MaxBytes == 2
MaxConns == 2

\* ------------------------------------------------------- program constants
EncTokenLen == 256
BackoffSeconds == 3

Iterations == 1..MaxIter
Users == 1..MaxUsers
\* The addresses a user listener can have: with yamux a configuration lists
\* up to MaxAddr of them, without it up to MaxSpliceAddr.
Addrs == 1..(IF MaxAddr > MaxSpliceAddr THEN MaxAddr ELSE MaxSpliceAddr)
Revs == {1, 2}
Streams == 1..MaxStreams
Conns == 1..MaxConns

\* ------------------------------------------------------------- handshake
\* cfg.SecretToken and the key pair of P; a peer may hold another token or
\* another public key.
SecretToken == "s"
Tokens == {"s", "wrong"}
PrivateKey == "k"
Keys == {"k", "other"}

\* rsa.EncryptPKCS1v15(rand, pub, token): a ciphertext of modulus length.
EncryptPKCS1v15(pub, tok) == [len |-> EncTokenLen, key |-> pub, pt |-> tok]

\* What a tunnel peer may write before going quiet: a full ciphertext under
\* any key of any token, or a strict prefix of one (here: all but one byte).
ShortLens == {EncTokenLen - 1}
PeerMsgs ==
    {EncryptPKCS1v15(k, t) : k \in Keys, t \in Tokens}
    \cup {[len |-> n, key |-> PrivateKey, pt |-> SecretToken] : n \in ShortLens}
NoMsg == [len |-> 0, key |-> "none", pt |-> "none"]

\* io.ReadFull(tunnelConn, encToken): "ok" once 256 bytes are there, "err"
\* when the connection ends before that, "block" otherwise.
ReadFull(msg, conn) ==
    IF msg.len >= EncTokenLen THEN "ok"
    ELSE IF conn = "broken" THEN "err"
    ELSE "block"

\* rsa.DecryptPKCS1v15(rand, privateKey, encToken): the plaintext when the
\* ciphertext was made under the matching public key, an error otherwise.
DecryptPKCS1v15(priv, c) ==
    IF c.key = priv /\ c.len = EncTokenLen
    THEN [err |-> FALSE, token |-> c.pt]
    ELSE [err |-> TRUE, token |-> "none"]

TokenMatchesAlways(token) == TRUE
\* string(token) != cfg.SecretToken, negated
TokenMatches(token) == token = SecretToken

VARIABLES
    cfg,            \* the configuration file: rev, cap (maxConcurrentStreams),
                    \* addrs (userListenAddr), useMux
    proc,           \* "running", "exited" (log.Fatalf), the panic that ended
                    \* it, or "off"
    pc,             \* the supervisor's position in the loop body
    iter,           \* iterations begun so far
    tunnelListener, \* "none", "open", "closed": the tunnel listener of this iteration
    slept,          \* seconds slept since this iteration began
    encToken,       \* what the tunnel peer of this iteration wrote first
    errLog,         \* errLog[i]: the failure the supervisor logged in iteration
                    \* i, "none" while it has logged none
    tunnelConn,     \* tunnelConn[i]: "none", "open", "broken" (the peer's side
                    \* is gone), "closed" (P closed it)
    session,        \* session[i]: "none", "open", "closed"
    stopChan,       \* stopChan[i]: "none", "open", "closed"
    streamCount,    \* streamCount[i]
    listeners,      \* listeners[i][a]: "none", "bound", "closed"
    acceptor,       \* acceptor[i][a]: "none", "top", "accept", "done"
    usr,            \* usr[u]: an external user connection and its handler
    done,           \* done[i]: the channel the no-mux branch waits on: "none",
                    \* "open", "closed"
    watcher         \* watcher[i]: the goroutine that reads tunnelConn to find
                    \* it closed: "none", "read", "exit"

\* The private endpoint (client.go); the names of P's variables it shares
\* carry an r.
VARIABLES
    rcfg,           \* its configuration file: cap (maxConcurrentStreams),
                    \* targets (len(cfg.LocalListenAddr))
    rproc,          \* "running", "exited", the panic that ended it, or "off"
    rpc,            \* the supervisor's position in the loop body
    riter,          \* iterations begun so far
    rslept,         \* seconds slept since this iteration began
    rWrote,         \* the handshake token was written on this transport
    rErrLog,        \* rErrLog[i]: the failure logged in iteration i
    rTunnelConn,    \* "none", "open", "broken", "closed"
    rSession,       \* "none", "open", "closed"
    rStreamCount,   \* rStreamCount[i]: streamCount of iteration i's accept loop
    localIdx,       \* the round-robin index of the accept loop
    picks,          \* the targets picked on this session, in order
    strm            \* strm[s]: a stream the public endpoint opened, its
                    \* handler and its local connection

\* One user connection paired with a stream and a local connection, from
\* the external user to the local service (the copies of part_001:485-488
\* or handleStream on the public side, those of client.go:171-174 on the
\* private side), and the connections the plain forwarders handle
\* (simple.go, entry.go).
VARIABLES
    relay,          \* the ends and the four copies of the pair
    wire,           \* the bytes sent, in flight and delivered, each way
    fprog,          \* the forwarder that runs: "simple" or "entry"
    fwd,            \* fwd[c]: a client connection of the forwarder and its
                    \* handler
    tap             \* the tunnel transport of the branch without yamux: the
                    \* bytes the private endpoint wrote and who read them

pVars == <<cfg, proc, pc, iter, tunnelListener, slept, encToken, errLog,
           tunnelConn, session, stopChan, streamCount, listeners, acceptor, usr,
           done, watcher>>
rVars == <<rcfg, rproc, rpc, riter, rslept, rWrote, rErrLog, rTunnelConn,
           rSession, rStreamCount, localIdx, picks, strm>>
dVars == <<relay, wire>>
fVars == <<fprog, fwd>>
tVars == <<tap>>
xVars == <<dVars, fVars, tVars>>
vars == <<pVars, rVars, xVars>>

\* uEnd, lEnd: "open", "shut" (the end has closed its sending side and still
\* reads), "closed". pH, rH: the two handlers, "copy" or "returned" (the
\* deferred Close calls have run). pUp: go io.Copy(stream, userConn); pDown:
\* io.Copy(userConn, stream); rToLocal: go io.Copy(localConn, stream);
\* rToStream: io.Copy(stream, localConn).
NoRelay == [uEnd |-> "none", lEnd |-> "none", pH |-> "none", pUp |-> "none",
            pDown |-> "none", rH |-> "none", rToLocal |-> "none",
            rToStream |-> "none"]
Paired == [uEnd |-> "open", lEnd |-> "open", pH |-> "copy", pUp |-> "run",
           pDown |-> "run", rH |-> "copy", rToLocal |-> "run",
           rToStream |-> "run"]

\* uSent, lSent: how many bytes U and L have sent. upConn, dnConn: bytes in
\* userConn and localConn the endpoint has not read yet. upStream, dnStream:
\* bytes in the stream its reader has not read yet. lRecv, uRecv: bytes
\* delivered to L and to U.
NoWire == [uSent |-> 0, upConn |-> <<>>, upStream |-> <<>>, lRecv |-> <<>>,
           lSent |-> 0, dnConn |-> <<>>, dnStream |-> <<>>, uRecv |-> <<>>]

\* The forwarders' connections before any client has connected.
NoFwd == [h |-> "idle", clientConn |-> "none", remoteConn |-> "none",
          toRemote |-> "none", toClient |-> "none", res |-> "none"]

\* conn: tunnelConn. rSent: how many bytes the private endpoint has written
\* on it. tunnel: the bytes nobody has read yet. watcher, buf, done, sup: the
\* goroutine of part_001:522-527, its one-byte buffer, the channel it closes
\* and the supervisor that waits for it. h, uRecv: the handler of each user
\* connection and the bytes written to that connection.
NoTap == [conn |-> "none", rSent |-> 0, tunnel |-> <<>>, watcher |-> "none",
          buf |-> <<>>, done |-> "none", sup |-> "none",
          h |-> [u \in Users |-> "none"],
          uRecv |-> [u \in Users |-> <<>>]]

\* No pair and no forwarder: where only the endpoints are looked at.
XIdle ==
    /\ relay = NoRelay
    /\ wire = NoWire
    /\ fprog = "simple"
    /\ fwd = [c \in Conns |-> NoFwd]
    /\ tap = NoTap

\* st: "idle" (not connected), "queued" (in a listener's backlog), "spawned"
\* (handler started), "open" (admitted, before OpenStream), "check" and
\* "close" (the two steps after a failed OpenStream), "copy", "done".
\* it, ad: the iteration and address of the listener. peerEnd: the user's
\* end. rEnd: the private endpoint's end of the stream. up, down: the two
\* copy directions. res: how the handler went. conn: the connection the
\* handler was started with. stream: the stream OpenStream returned to it
\* (each call returns a new one, named here after its caller).
NoUser == [st |-> "idle", it |-> 0, ad |-> 0, peerEnd |-> "open",
           rEnd |-> "open", up |-> "none", down |-> "none", res |-> "none",
           conn |-> 0, stream |-> 0]

Configs ==
    {[rev |-> r, cap |-> c, addrs |-> 1..n, useMux |-> TRUE] :
        r \in Revs, c \in 0..MaxCap, n \in 0..MaxAddr}

NoListeners == [i \in Iterations |-> [a \in Addrs |-> "none"]]
NoneAt == [i \in Iterations |-> "none"]

\* proc is "off" where only the other endpoint is looked at.
PStart(c, p) ==
    /\ cfg = c
    /\ proc = p
    /\ pc = "init"
    /\ iter = 0
    /\ tunnelListener = "none"
    /\ slept = 0
    /\ encToken = NoMsg
    /\ errLog = NoneAt
    /\ tunnelConn = NoneAt
    /\ session = NoneAt
    /\ stopChan = NoneAt
    /\ streamCount = [i \in Iterations |-> 0]
    /\ listeners = NoListeners
    /\ acceptor = NoListeners
    /\ usr = [u \in Users |-> NoUser]
    /\ done = NoneAt
    /\ watcher = NoneAt

Running == proc = "running"

handlerVars == <<streamCount, usr>>
acceptVars == <<listeners, acceptor>>
sessVars == <<session, stopChan>>
supVars == <<pc, iter, tunnelListener, slept, encToken, errLog>>
nVars == <<done, watcher>>

\* The process ends (os.Exit in log.Fatalf, or an unrecovered panic): every
\* goroutine, listener and connection of it is gone.
Halt(reason) ==
    /\ proc' = reason
    /\ pc' = "halted"
    /\ tunnelListener' = "none"
    /\ slept' = 0
    /\ tunnelConn' = [i \in Iterations |->
                        IF tunnelConn[i] = "none" THEN "none" ELSE "closed"]
    /\ session' = [i \in Iterations |->
                        IF session[i] = "none" THEN "none" ELSE "closed"]
    /\ stopChan' = NoneAt
    /\ streamCount' = [i \in Iterations |-> 0]
    /\ listeners' = NoListeners
    /\ acceptor' = NoListeners
    /\ usr' = [u \in Users |-> NoUser]
    /\ done' = NoneAt
    /\ watcher' = NoneAt
    /\ UNCHANGED <<rVars, xVars, cfg>>

\* ------------------------------------------------------------ supervisor
\* What the top of the loop body logs on each outcome.
LoadLog(out) ==
    CASE out = "key" -> "Failed to load private key"
      [] out = "listen" -> "Failed to listen for tunnel client"
      [] OTHER -> "none"

\* The top of the loop body up to net.Listen: the config file cannot be opened
\* or decoded (log.Fatalf), the key cannot be loaded, the tunnel address
\* cannot be bound, or the tunnel listener is open.
SupLoad ==
    /\ Running /\ pc = "init" /\ iter < MaxIter
    /\ \E out \in {"key", "listen", "ok"} :
         /\ tunnelListener' = IF out = "ok" THEN "open" ELSE "none"
         /\ pc' = IF out = "ok" THEN "accept" ELSE "backoff"
         /\ errLog' = [errLog EXCEPT ![iter + 1] = LoadLog(out)]
    /\ iter' = iter + 1
    /\ slept' = 0
    /\ encToken' = NoMsg
    /\ UNCHANGED <<rVars, xVars, nVars, cfg, proc, tunnelConn, sessVars, acceptVars, handlerVars>>

SupLoadFatal ==
    /\ Running /\ pc = "init" /\ iter < MaxIter
    /\ iter' = iter + 1
    /\ errLog' = [errLog EXCEPT ![iter + 1] = "Failed to open config"]
    /\ encToken' = NoMsg
    /\ Halt("exited")

\* tunnelListener.Accept(), then tunnelListener.Close() on either outcome.
SupAccept ==
    /\ Running /\ pc = "accept"
    /\ tunnelListener' = "closed"
    /\ \/ \E m \in PeerMsgs :
            /\ encToken' = m
            /\ tunnelConn' = [tunnelConn EXCEPT ![iter] = "open"]
            /\ pc' = "handshake"
            /\ UNCHANGED errLog
       \/ /\ pc' = "backoff"
          /\ errLog' = [errLog EXCEPT ![iter] = "Failed to accept tunnel client"]
          /\ UNCHANGED <<encToken, tunnelConn>>
    /\ UNCHANGED <<rVars, xVars, nVars, cfg, proc, iter, slept, sessVars, acceptVars, handlerVars>>

\* The authentication handshake: ReadFull, DecryptPKCS1v15, the comparison
\* with cfg.SecretToken.
HandshakeOk(msg, conn) ==
    /\ ReadFull(msg, conn) = "ok"
    /\ ~DecryptPKCS1v15(PrivateKey, msg).err
    /\ TokenMatches(DecryptPKCS1v15(PrivateKey, msg).token)

\* What the handshake logs: the first of its three checks that fails.
HandshakeLog(msg, conn) ==
    IF ReadFull(msg, conn) # "ok" THEN "Failed to read encrypted token"
    ELSE IF DecryptPKCS1v15(PrivateKey, msg).err THEN "Failed to decrypt token"
    ELSE IF ~TokenMatches(DecryptPKCS1v15(PrivateKey, msg).token)
         THEN "Invalid token from client"
    ELSE "none"

\* A failed handshake that forgets tunnelConn.Close().
SupHandshakeNoClose ==
    /\ Running /\ pc = "handshake"
    /\ ReadFull(encToken, tunnelConn[iter]) # "block"
    /\ IF HandshakeOk(encToken, tunnelConn[iter])
       THEN /\ pc' = "authed"
            /\ UNCHANGED <<tunnelConn, errLog>>
       ELSE /\ UNCHANGED tunnelConn
            /\ pc' = "backoff"
            /\ errLog' = [errLog EXCEPT ![iter] =
                             HandshakeLog(encToken, tunnelConn[iter])]
    /\ UNCHANGED <<rVars, xVars, nVars, cfg, proc, iter, tunnelListener, slept, encToken, sessVars,
                   acceptVars, handlerVars>>

\* Any handshake failure closes tunnelConn and backs off.
SupHandshake ==
    /\ Running /\ pc = "handshake"
    /\ ReadFull(encToken, tunnelConn[iter]) # "block"
    /\ IF HandshakeOk(encToken, tunnelConn[iter])
       THEN /\ pc' = "authed"
            /\ UNCHANGED <<tunnelConn, errLog>>
       ELSE /\ tunnelConn' = [tunnelConn EXCEPT ![iter] = "closed"]
            /\ pc' = "backoff"
            /\ errLog' = [errLog EXCEPT ![iter] =
                             HandshakeLog(encToken, tunnelConn[iter])]
    /\ UNCHANGED <<rVars, xVars, nVars, cfg, proc, iter, tunnelListener, slept, encToken, sessVars,
                   acceptVars, handlerVars>>

\* yamux.Server called without waiting for the handshake's checks.
SupSessionUnchecked ==
    /\ Running /\ pc \in {"handshake", "authed"}
    /\ cfg.useMux
    /\ \/ /\ session' = [session EXCEPT ![iter] = "open"]
          /\ pc' = "session_up"
          /\ UNCHANGED <<tunnelConn, errLog>>
       \/ /\ tunnelConn' = [tunnelConn EXCEPT ![iter] = "closed"]
          /\ pc' = "backoff"
          /\ errLog' = [errLog EXCEPT ![iter] = "Failed to create yamux session"]
          /\ UNCHANGED session
    /\ UNCHANGED <<rVars, xVars, nVars, cfg, proc, iter, tunnelListener, slept, encToken, stopChan,
                   acceptVars, handlerVars>>

\* if cfg.UseMux: yamux.Server(tunnelConn, yamuxConf), which fails on a
\* configuration yamux rejects.
SupSession ==
    /\ Running /\ pc = "authed"
    /\ cfg.useMux
    /\ \/ /\ session' = [session EXCEPT ![iter] = "open"]
          /\ pc' = "session_up"
          /\ UNCHANGED <<tunnelConn, errLog>>
       \/ /\ tunnelConn' = [tunnelConn EXCEPT ![iter] = "closed"]
          /\ pc' = "backoff"
          /\ errLog' = [errLog EXCEPT ![iter] = "Failed to create yamux session"]
          /\ UNCHANGED session
    /\ UNCHANGED <<rVars, xVars, nVars, cfg, proc, iter, tunnelListener, slept, encToken, stopChan,
                   acceptVars, handlerVars>>

\* An address some live listener of this process holds cannot be bound again.
AddrInUse(a) == \E j \in Iterations : listeners[j][a] = "bound"

\* net.Listen on every cfg.UserListenAddr entry; the iteration is abandoned
\* when none binds, else stopChan and the counter are made and one acceptor
\* goroutine is started per listener.
SupBind ==
    /\ Running /\ pc = "session_up"
    /\ \E ok \in SUBSET cfg.addrs :
         /\ \A a \in ok : ~AddrInUse(a)
         /\ IF ok = {}
            THEN /\ session' = [session EXCEPT ![iter] = "closed"]
                 /\ tunnelConn' = [tunnelConn EXCEPT ![iter] = "closed"]
                 /\ pc' = "backoff"
                 /\ errLog' = [errLog EXCEPT ![iter] =
                                  "No user listeners available"]
                 /\ UNCHANGED <<stopChan, streamCount, listeners, acceptor>>
            ELSE /\ listeners' = [listeners EXCEPT ![iter] =
                       [a \in Addrs |-> IF a \in ok THEN "bound" ELSE "none"]]
                 /\ acceptor' = [acceptor EXCEPT ![iter] =
                       [a \in Addrs |-> IF a \in ok THEN "top" ELSE "none"]]
                 /\ stopChan' = [stopChan EXCEPT ![iter] = "open"]
                 /\ streamCount' = [streamCount EXCEPT ![iter] = 0]
                 /\ pc' = "serving"
                 /\ UNCHANGED <<session, tunnelConn, errLog>>
    /\ UNCHANGED <<rVars, xVars, nVars, cfg, proc, iter, tunnelListener, slept, encToken, usr>>

CloseAll(ls) == [a \in Addrs |-> IF ls[a] = "bound" THEN "closed" ELSE ls[a]]

\* rev 1: <-stopChan, then every listener, the session and tunnelConn are
\* closed.
SupWaitStop ==
    /\ Running /\ pc = "serving" /\ cfg.rev = 1
    /\ stopChan[iter] = "closed"
    /\ listeners' = [listeners EXCEPT ![iter] = CloseAll(listeners[iter])]
    /\ session' = [session EXCEPT ![iter] = "closed"]
    /\ tunnelConn' = [tunnelConn EXCEPT ![iter] = "closed"]
    /\ pc' = "backoff"
    /\ errLog' = [errLog EXCEPT ![iter] = "Connection lost"]
    /\ UNCHANGED <<rVars, xVars, nVars, cfg, proc, iter, tunnelListener, slept, encToken, stopChan,
                   acceptor, handlerVars>>

\* rev 2: nothing follows the loop that starts the acceptors; the
\* multiplexed branch ends and the for loop begins its next iteration.
SupFallThrough ==
    /\ Running /\ pc = "serving" /\ cfg.rev = 2
    /\ pc' = "init"
    /\ UNCHANGED <<rVars, xVars, nVars, cfg, proc, iter, tunnelListener, slept, encToken, errLog,
                   tunnelConn, sessVars, acceptVars, handlerVars>>

\* time.Sleep(3 * time.Second); continue
SupSleep ==
    /\ Running /\ pc = "backoff"
    /\ slept' = slept + BackoffSeconds
    /\ pc' = "init"
    /\ UNCHANGED <<rVars, xVars, nVars, cfg, proc, iter, tunnelListener, encToken, errLog,
                   tunnelConn, sessVars, acceptVars, handlerVars>>

\* ----------------------------------------------------- tunnel and session
\* The peer dies or the network drops transport i.
LinkDown(i) ==
    /\ Running /\ tunnelConn[i] = "open"
    /\ tunnelConn' = [tunnelConn EXCEPT ![i] = "broken"]
    /\ UNCHANGED <<rVars, xVars, nVars, cfg, proc, supVars, sessVars, acceptVars, handlerVars>>

\* yamux: the session's receive loop sees the transport fail and shuts the
\* session down, which closes the transport and every stream.
SessionShutdown(i) ==
    /\ Running /\ session[i] = "open"
    /\ tunnelConn[i] \in {"broken", "closed"}
    /\ session' = [session EXCEPT ![i] = "closed"]
    /\ tunnelConn' = [tunnelConn EXCEPT ![i] = "closed"]
    /\ UNCHANGED <<rVars, xVars, nVars, cfg, proc, supVars, stopChan, acceptVars, handlerVars>>

\* ------------------------------------------------------- external users
\* An external user connects to a bound user address; the connection waits in
\* the listener's backlog. Users connect in the order of their numbers.
UserConnect(u, a) ==
    /\ Running /\ usr[u].st = "idle"
    /\ u > 1 => usr[u - 1].st # "idle"
    /\ \E i \in Iterations :
         /\ listeners[i][a] = "bound"
         /\ usr' = [usr EXCEPT ![u].st = "queued", ![u].it = i, ![u].ad = a]
    /\ UNCHANGED <<rVars, xVars, nVars, cfg, proc, supVars, tunnelConn, sessVars, acceptVars,
                   streamCount>>

\* The external user closes its connection.
UserClose(u) ==
    /\ Running /\ usr[u].st \notin {"idle", "done"}
    /\ usr[u].peerEnd = "open"
    /\ usr' = [usr EXCEPT ![u].peerEnd = "closed"]
    /\ UNCHANGED <<rVars, xVars, nVars, cfg, proc, supVars, tunnelConn, sessVars, acceptVars,
                   streamCount>>

\* The private endpoint closes its end of the stream paired with u.
RStreamClose(u) ==
    /\ Running /\ usr[u].st = "copy" /\ usr[u].rEnd = "open"
    /\ session[usr[u].it] = "open"
    /\ usr' = [usr EXCEPT ![u].rEnd = "closed"]
    /\ UNCHANGED <<rVars, xVars, nVars, cfg, proc, supVars, tunnelConn, sessVars, acceptVars,
                   streamCount>>

\* -------------------------------------------------------------- acceptors
\* select { case <-stopChan: userListener.Close(); return; default: }
AccTop(i, a) ==
    /\ Running /\ acceptor[i][a] = "top"
    /\ IF stopChan[i] = "closed"
       THEN /\ listeners' = [listeners EXCEPT ![i][a] = "closed"]
            /\ acceptor' = [acceptor EXCEPT ![i][a] = "done"]
       ELSE /\ acceptor' = [acceptor EXCEPT ![i][a] = "accept"]
            /\ UNCHANGED listeners
    /\ UNCHANGED <<rVars, xVars, nVars, cfg, proc, supVars, tunnelConn, sessVars, handlerVars>>

\* userListener.Accept() returns a connection; go func(userConn) starts its
\* handler.
AccAccept(i, a, u) ==
    /\ Running /\ acceptor[i][a] = "accept"
    /\ listeners[i][a] = "bound"
    /\ usr[u].st = "queued" /\ usr[u].it = i /\ usr[u].ad = a
    /\ usr' = [usr EXCEPT ![u].st = "spawned", ![u].conn = u]
    /\ acceptor' = [acceptor EXCEPT ![i][a] = "top"]
    /\ UNCHANGED <<rVars, xVars, nVars, cfg, proc, supVars, tunnelConn, sessVars, listeners,
                   streamCount>>

\* userListener.Accept() returns an error (the listener was closed, or the
\* system call failed). With stopChan closed the acceptor returns. Otherwise
\* the break leaves only the select: the handler is started with the nil
\* userConn, and its defer userConn.Close() panics.
AccAcceptErr(i, a) ==
    /\ Running /\ acceptor[i][a] = "accept"
    /\ listeners[i][a] \in {"bound", "closed"}
    /\ IF stopChan[i] = "closed"
       THEN /\ acceptor' = [acceptor EXCEPT ![i][a] = "done"]
            /\ UNCHANGED <<rVars, xVars, nVars, cfg, proc, supVars, tunnelConn, sessVars, listeners,
                           handlerVars>>
       ELSE /\ Halt("panic: nil pointer dereference")
            /\ UNCHANGED <<iter, encToken, errLog>>

\* --------------------------------------------------------------- handlers
AtCapOffByOne(count) == cfg.cap > 0 /\ count > cfg.cap
\* maxConcurrentStreams > 0 && streamCount >= maxConcurrentStreams
AtCap(count) == cfg.cap > 0 /\ count >= cfg.cap

\* The deferred streamCount-- of rev 2; rev 1 keeps no counter.
Release(i) ==
    IF cfg.rev = 2
    THEN [streamCount EXCEPT ![i] = streamCount[i] - 1]
    ELSE streamCount

\* The handler has returned: the deferred userConn.Close() (and, after an
\* OpenStream that succeeded, stream.Close()) have run.
Returned(u, how) ==
    [usr[u] EXCEPT !.st = "done", !.it = 0, !.ad = 0, !.peerEnd = "closed",
                   !.rEnd = "closed", !.res = how, !.conn = 0, !.stream = 0]

\* The decrement deferred before the admission check: a rejection gives back
\* a slot it never took.
HAdmitDeferFirst(u) ==
    /\ Running /\ cfg.rev = 2 /\ usr[u].st = "spawned"
    /\ IF AtCap(streamCount[usr[u].it])
       THEN /\ usr' = [usr EXCEPT ![u] = Returned(u, "rejected")]
            /\ streamCount' = Release(usr[u].it)
       ELSE /\ usr' = [usr EXCEPT ![u].st = "open"]
            /\ streamCount' = [streamCount EXCEPT ![usr[u].it] = @ + 1]
    /\ UNCHANGED <<rVars, xVars, nVars, cfg, proc, supVars, tunnelConn, sessVars, acceptVars>>

\* rev 2: under streamCountMu, reject at the cap, else streamCount++.
HAdmit(u) ==
    /\ Running /\ cfg.rev = 2 /\ usr[u].st = "spawned"
    /\ IF AtCap(streamCount[usr[u].it])
       THEN /\ usr' = [usr EXCEPT ![u] = Returned(u, "rejected")]
            /\ UNCHANGED streamCount
       ELSE /\ usr' = [usr EXCEPT ![u].st = "open"]
            /\ streamCount' = [streamCount EXCEPT ![usr[u].it] = @ + 1]
    /\ UNCHANGED <<rVars, xVars, nVars, cfg, proc, supVars, tunnelConn, sessVars, acceptVars>>

AtOpenStream(u) ==
    \/ usr[u].st = "open"
    \/ cfg.rev = 1 /\ usr[u].st = "spawned"

\* One stream, opened once, that every handler of the process copies on.
HOpenStreamShared(u) ==
    /\ Running /\ AtOpenStream(u)
    /\ IF session[usr[u].it] = "open"
       THEN usr' = [usr EXCEPT ![u].st = "copy", ![u].up = "run",
                               ![u].down = "run", ![u].res = "stream",
                               ![u].stream = 1]
       ELSE usr' = [usr EXCEPT ![u].st = "check", ![u].res = "openfail"]
    /\ UNCHANGED <<rVars, xVars, nVars, cfg, proc, supVars, tunnelConn, sessVars, acceptVars,
                   streamCount>>

\* session.OpenStream(): a stream on a live session, an error on a session
\* that has shut down.
HOpenStream(u) ==
    /\ Running /\ AtOpenStream(u)
    /\ IF session[usr[u].it] = "open"
       THEN usr' = [usr EXCEPT ![u].st = "copy", ![u].up = "run",
                               ![u].down = "run", ![u].res = "stream",
                               ![u].stream = u]
       ELSE usr' = [usr EXCEPT ![u].st = "check", ![u].res = "openfail"]
    /\ UNCHANGED <<rVars, xVars, nVars, cfg, proc, supVars, tunnelConn, sessVars, acceptVars,
                   streamCount>>

\* select { case <-stopChan: (already closed) default: ... }: the receive
\* case returns from the handler, the default case goes on to close(stopChan).
HCheckStop(u) ==
    /\ Running /\ usr[u].st = "check"
    /\ IF stopChan[usr[u].it] = "closed"
       THEN /\ usr' = [usr EXCEPT ![u] = Returned(u, "openfail")]
            /\ streamCount' = Release(usr[u].it)
       ELSE /\ usr' = [usr EXCEPT ![u].st = "close"]
            /\ UNCHANGED streamCount
    /\ UNCHANGED <<rVars, xVars, nVars, cfg, proc, supVars, tunnelConn, sessVars, acceptVars>>

\* close(stopChan), then return; closing a closed channel panics.
HCloseStop(u) ==
    /\ Running /\ usr[u].st = "close"
    /\ IF stopChan[usr[u].it] = "closed"
       THEN /\ Halt("panic: close of closed channel")
            /\ UNCHANGED <<iter, encToken, errLog>>
       ELSE /\ stopChan' = [stopChan EXCEPT ![usr[u].it] = "closed"]
            /\ usr' = [usr EXCEPT ![u] = Returned(u, "openfail")]
            /\ streamCount' = Release(usr[u].it)
            /\ UNCHANGED <<rVars, xVars, nVars, cfg, proc, supVars, tunnelConn, session, acceptVars>>

\* The user-to-stream copy ends when its read of userConn ends: the user
\* closed, or the handler has returned and closed userConn.
HCopyUpEnd(u) ==
    /\ Running /\ usr[u].up = "run"
    /\ usr[u].peerEnd = "closed"
    /\ usr' = [usr EXCEPT ![u].up = "done"]
    /\ UNCHANGED <<rVars, xVars, nVars, cfg, proc, supVars, tunnelConn, sessVars, acceptVars,
                   streamCount>>

\* The user sends data and the write to a stream of a dead session fails.
HCopyUpWriteErr(u) ==
    /\ Running /\ usr[u].up = "run" /\ usr[u].st = "copy"
    /\ usr[u].peerEnd = "open"
    /\ session[usr[u].it] = "closed"
    /\ usr' = [usr EXCEPT ![u].up = "done"]
    /\ UNCHANGED <<rVars, xVars, nVars, cfg, proc, supVars, tunnelConn, sessVars, acceptVars,
                   streamCount>>

\* The stream-to-user copy ends when its read of the stream ends: the
\* private endpoint closed the stream, or the session is gone.
HCopyDownEnd(u) ==
    /\ Running /\ usr[u].down = "run" /\ usr[u].st = "copy"
    /\ usr[u].rEnd = "closed" \/ session[usr[u].it] = "closed"
    /\ usr' = [usr EXCEPT ![u].down = "done"]
    /\ UNCHANGED <<rVars, xVars, nVars, cfg, proc, supVars, tunnelConn, sessVars, acceptVars,
                   streamCount>>

\* The private endpoint sends data and the write to a userConn whose user
\* has gone fails.
HCopyDownWriteErr(u) ==
    /\ Running /\ usr[u].down = "run" /\ usr[u].st = "copy"
    /\ usr[u].peerEnd = "closed"
    /\ usr[u].rEnd = "open" /\ session[usr[u].it] = "open"
    /\ usr' = [usr EXCEPT ![u].down = "done"]
    /\ UNCHANGED <<rVars, xVars, nVars, cfg, proc, supVars, tunnelConn, sessVars, acceptVars,
                   streamCount>>

\* rev 1, handleStream: wg.Wait() returns when both copies are done.
\* rev 2: io.Copy(userConn, stream) has returned.
CopierReturns(u) ==
    IF cfg.rev = 1
    THEN usr[u].up = "done" /\ usr[u].down = "done"
    ELSE usr[u].down = "done"

\* The copier has returned: the deferred stream.Close(), streamCount-- and
\* userConn.Close() run.
HReturn(u) ==
    /\ Running /\ usr[u].st = "copy"
    /\ CopierReturns(u)
    /\ usr' = [usr EXCEPT ![u] = Returned(u, "stream")]
    /\ streamCount' = Release(usr[u].it)
    /\ UNCHANGED <<rVars, xVars, nVars, cfg, proc, supVars, tunnelConn, sessVars, acceptVars>>

\* ------------------------------------------------- the branch without yamux
\* rev 2 with useMux = false (part_001:494-533): tunnelConn itself carries
\* the bytes of the user connections.

\* net.Listen on every cfg.UserListenAddr entry and one acceptor goroutine
\* per listener that bound, then done and the goroutine that reads
\* tunnelConn. Nothing tests how many listeners bound.
SupBindNoMux ==
    /\ Running /\ pc = "authed"
    /\ ~cfg.useMux
    /\ \E ok \in SUBSET cfg.addrs :
         /\ \A a \in ok : ~AddrInUse(a)
         /\ listeners' = [listeners EXCEPT ![iter] =
               [a \in Addrs |-> IF a \in ok THEN "bound" ELSE "none"]]
         /\ acceptor' = [acceptor EXCEPT ![iter] =
               [a \in Addrs |-> IF a \in ok THEN "accept" ELSE "none"]]
    /\ done' = [done EXCEPT ![iter] = "open"]
    /\ watcher' = [watcher EXCEPT ![iter] = "read"]
    /\ pc' = "wait_done"
    /\ UNCHANGED <<rVars, xVars, cfg, proc, iter, tunnelListener, slept, encToken, errLog,
                   tunnelConn, sessVars, handlerVars>>

\* tunnelConn.Read(buf) returns an error: close(done).
WatchReadErr(i) ==
    /\ Running /\ watcher[i] = "read"
    /\ tunnelConn[i] \in {"broken", "closed"}
    /\ done' = [done EXCEPT ![i] = "closed"]
    /\ watcher' = [watcher EXCEPT ![i] = "exit"]
    /\ UNCHANGED <<rVars, xVars, cfg, proc, supVars, tunnelConn, sessVars, acceptVars,
                   handlerVars>>

\* tunnelConn.Read(buf) returns a byte the peer sent: err is nil, the
\* goroutine ends and done stays open.
WatchReadByte(i) ==
    /\ Running /\ watcher[i] = "read"
    /\ tunnelConn[i] = "open"
    /\ watcher' = [watcher EXCEPT ![i] = "exit"]
    /\ UNCHANGED <<rVars, xVars, cfg, proc, supVars, tunnelConn, sessVars, acceptVars,
                   handlerVars, done>>

\* <-done, tunnelConn.Close(), then the 3 s sleep at the end of the branch.
SupWaitDone ==
    /\ Running /\ pc = "wait_done"
    /\ done[iter] = "closed"
    /\ tunnelConn' = [tunnelConn EXCEPT ![iter] = "closed"]
    /\ errLog' = [errLog EXCEPT ![iter] = "Tunnel connection closed"]
    /\ pc' = "backoff"
    /\ UNCHANGED <<rVars, xVars, nVars, cfg, proc, iter, tunnelListener, slept, encToken,
                   sessVars, acceptVars, handlerVars>>

\* userListener.Accept() returns a connection; its handler is started and
\* the loop accepts again.
NAccAccept(i, a, u) ==
    /\ Running /\ ~cfg.useMux
    /\ acceptor[i][a] = "accept"
    /\ listeners[i][a] = "bound"
    /\ usr[u].st = "queued" /\ usr[u].it = i /\ usr[u].ad = a
    /\ usr' = [usr EXCEPT ![u].st = "spawned", ![u].conn = u]
    /\ UNCHANGED <<rVars, xVars, nVars, cfg, proc, supVars, tunnelConn, sessVars, acceptVars,
                   streamCount>>

\* userListener.Accept() returns an error: the break ends the acceptor; the
\* listener is left as it is.
NAccAcceptErr(i, a) ==
    /\ Running /\ ~cfg.useMux
    /\ acceptor[i][a] = "accept"
    /\ acceptor' = [acceptor EXCEPT ![i][a] = "done"]
    /\ UNCHANGED <<rVars, xVars, nVars, cfg, proc, supVars, tunnelConn, sessVars, listeners,
                   handlerVars>>

\* The handler: go io.Copy(tunnelConn, userConn); io.Copy(userConn, tunnelConn)
HSplice(u) ==
    /\ Running /\ ~cfg.useMux
    /\ usr[u].st = "spawned"
    /\ usr' = [usr EXCEPT ![u].st = "copy", ![u].up = "run", ![u].down = "run",
                          ![u].res = "spliced"]
    /\ UNCHANGED <<rVars, xVars, nVars, cfg, proc, supVars, tunnelConn, sessVars, acceptVars,
                   streamCount>>

\* The user sends data and the write to a tunnelConn that is gone fails.
NCopyUpWriteErr(u) ==
    /\ Running /\ ~cfg.useMux
    /\ usr[u].up = "run" /\ usr[u].st = "copy"
    /\ usr[u].peerEnd = "open"
    /\ tunnelConn[usr[u].it] \in {"broken", "closed"}
    /\ usr' = [usr EXCEPT ![u].up = "done"]
    /\ UNCHANGED <<rVars, xVars, nVars, cfg, proc, supVars, tunnelConn, sessVars, acceptVars,
                   streamCount>>

\* io.Copy(userConn, tunnelConn) ends when its read of tunnelConn ends.
NCopyDownEnd(u) ==
    /\ Running /\ ~cfg.useMux
    /\ usr[u].down = "run" /\ usr[u].st = "copy"
    /\ tunnelConn[usr[u].it] \in {"broken", "closed"}
    /\ usr' = [usr EXCEPT ![u].down = "done"]
    /\ UNCHANGED <<rVars, xVars, nVars, cfg, proc, supVars, tunnelConn, sessVars, acceptVars,
                   streamCount>>

\* The peer sends data and the write to a userConn whose user has gone fails.
NCopyDownWriteErr(u) ==
    /\ Running /\ ~cfg.useMux
    /\ usr[u].down = "run" /\ usr[u].st = "copy"
    /\ usr[u].peerEnd = "closed"
    /\ tunnelConn[usr[u].it] = "open"
    /\ usr' = [usr EXCEPT ![u].down = "done"]
    /\ UNCHANGED <<rVars, xVars, nVars, cfg, proc, supVars, tunnelConn, sessVars, acceptVars,
                   streamCount>>

\* io.Copy(userConn, tunnelConn) has returned: the deferred userConn.Close().
NReturn(u) ==
    /\ Running /\ ~cfg.useMux
    /\ usr[u].st = "copy" /\ usr[u].down = "done"
    /\ usr' = [usr EXCEPT ![u] = Returned(u, "spliced")]
    /\ UNCHANGED <<rVars, xVars, nVars, cfg, proc, supVars, tunnelConn, sessVars, acceptVars,
                   streamCount>>

\* =========================================================================
\* The private endpoint (R), src/reverse/client/client.go, main (lines 58-201)
\* in multiplexed mode: the supervisor loop with its stream accept loop and
\* the per-stream handler goroutines. The public endpoint, the local services
\* and the network are its environment.
\* =========================================================================
RConfigs ==
    {[cap |-> c, targets |-> k, useMux |-> TRUE] :
        c \in 0..MaxCap, k \in 0..MaxTargets}

\* pEnd: the public endpoint's end of the stream. localConn: "none", "open",
\* "eof" (the local service closed it), "closed" (R closed it). toStream:
\* the copy the handler itself runs. target: the index picked for it.
\* stream: the stream the handler was started with. local: the connection
\* net.Dial returned to it (each call returns a new one, named here after
\* its caller).
NoStream == [st |-> "none", it |-> 0, target |-> 0, pEnd |-> "open",
             localConn |-> "none", toStream |-> "none", res |-> "none",
             stream |-> 0, local |-> 0]

RStart(c, p) ==
    /\ rcfg = c
    /\ rproc = p
    /\ rpc = "init"
    /\ riter = 0
    /\ rslept = 0
    /\ rWrote = FALSE
    /\ rErrLog = NoneAt
    /\ rTunnelConn = "none"
    /\ rSession = "none"
    /\ rStreamCount = [i \in Iterations |-> 0]
    /\ localIdx = 0
    /\ picks = <<>>
    /\ strm = [s \in Streams |-> NoStream]

RRunning == rproc = "running"

rSupVars == <<rpc, riter, rslept, rWrote, rErrLog>>
rLoopVars == <<rStreamCount, localIdx, picks>>

\* The process ends: log.Fatalf or an unrecovered panic.
RHalt(reason) ==
    /\ rproc' = reason
    /\ rpc' = "halted"
    /\ rslept' = 0
    /\ rWrote' = FALSE
    /\ rTunnelConn' = IF rTunnelConn = "none" THEN "none" ELSE "closed"
    /\ rSession' = IF rSession = "none" THEN "none" ELSE "closed"
    /\ rStreamCount' = [i \in Iterations |-> 0]
    /\ localIdx' = 0
    /\ picks' = <<>>
    /\ strm' = [s \in Streams |-> NoStream]
    /\ UNCHANGED <<pVars, xVars, rcfg>>

RLoadLog(out) ==
    CASE out = "key" -> "Failed to load public key"
      [] out = "dial" -> "Failed to connect to tunnel server"
      [] OTHER -> "none"

\* The top of the loop body up to net.Dial: the key cannot be loaded, the
\* tunnel server cannot be reached, or the transport is open.
RLoad ==
    /\ RRunning /\ rpc = "init" /\ riter < MaxIter
    /\ \E out \in {"key", "dial", "ok"} :
         /\ rTunnelConn' = IF out = "ok" THEN "open" ELSE "none"
         /\ rpc' = IF out = "ok" THEN "handshake" ELSE "backoff"
         /\ rErrLog' = [rErrLog EXCEPT ![riter + 1] = RLoadLog(out)]
    /\ riter' = riter + 1
    /\ rslept' = 0
    /\ rWrote' = FALSE
    /\ rSession' = "none"
    /\ UNCHANGED <<pVars, xVars, rcfg, rproc, rLoopVars, strm>>

\* The config file cannot be opened or decoded: log.Fatalf.
RLoadFatal ==
    /\ RRunning /\ rpc = "init" /\ riter < MaxIter
    /\ riter' = riter + 1
    /\ rErrLog' = [rErrLog EXCEPT ![riter + 1] = "Failed to open config"]
    /\ RHalt("exited")

\* rsa.EncryptPKCS1v15 and tunnelConn.Write(encToken). A write to a transport
\* whose peer is gone may fail or still be buffered.
RHandshake ==
    /\ RRunning /\ rpc = "handshake"
    /\ \E out \in {"encrypt", "write", "ok"} :
         /\ out = "write" => rTunnelConn = "broken"
         /\ IF out = "ok"
            THEN /\ rWrote' = TRUE
                 /\ rpc' = "authed"
                 /\ UNCHANGED <<rTunnelConn, rErrLog>>
            ELSE /\ rTunnelConn' = "closed"
                 /\ rpc' = "backoff"
                 /\ rErrLog' = [rErrLog EXCEPT ![riter] =
                        IF out = "encrypt" THEN "Failed to encrypt token"
                        ELSE "Failed to send encrypted token"]
                 /\ UNCHANGED rWrote
    /\ UNCHANGED <<pVars, xVars, rcfg, rproc, riter, rslept, rSession, rLoopVars, strm>>

\* A session whose accept loop goes on with the index of the one before.
RSessionKeepsIdx ==
    /\ RRunning /\ rpc = "authed"
    /\ rcfg.useMux
    /\ \/ /\ rSession' = "open"
          /\ rStreamCount' = [rStreamCount EXCEPT ![riter] = 0]
          /\ picks' = <<>>
          /\ rpc' = "loop"
          /\ UNCHANGED <<rTunnelConn, rErrLog, localIdx>>
       \/ /\ rTunnelConn' = "closed"
          /\ rpc' = "backoff"
          /\ rErrLog' = [rErrLog EXCEPT ![riter] = "Failed to create yamux session"]
          /\ UNCHANGED <<rSession, rLoopVars>>
    /\ UNCHANGED <<pVars, xVars, rcfg, rproc, riter, rslept, rWrote, strm>>

\* yamux.Client(tunnelConn, yamuxConf), then the accept loop's locals.
RSession ==
    /\ RRunning /\ rpc = "authed"
    /\ rcfg.useMux
    /\ \/ /\ rSession' = "open"
          /\ rStreamCount' = [rStreamCount EXCEPT ![riter] = 0]
          /\ localIdx' = 0
          /\ picks' = <<>>
          /\ rpc' = "loop"
          /\ UNCHANGED <<rTunnelConn, rErrLog>>
       \/ /\ rTunnelConn' = "closed"
          /\ rpc' = "backoff"
          /\ rErrLog' = [rErrLog EXCEPT ![riter] = "Failed to create yamux session"]
          /\ UNCHANGED <<rSession, rLoopVars>>
    /\ UNCHANGED <<pVars, xVars, rcfg, rproc, riter, rslept, rWrote, strm>>

RAtCapOffByOne(count) == rcfg.cap > 0 /\ count > rcfg.cap
\* maxConcurrentStreams > 0 && streamCount >= maxConcurrentStreams
RAtCap(count) == rcfg.cap > 0 /\ count >= rcfg.cap

\* The top of the accept loop: at the cap the loop sleeps 100 ms and tests
\* again, else it takes a slot and calls session.AcceptStream().
RLoopTop ==
    /\ RRunning /\ rpc = "loop"
    /\ ~RAtCap(rStreamCount[riter])
    /\ rStreamCount' = [rStreamCount EXCEPT ![riter] = @ + 1]
    /\ rpc' = "accepting"
    /\ UNCHANGED <<pVars, xVars, rcfg, rproc, riter, rslept, rWrote, rErrLog,
                   rTunnelConn, rSession, localIdx, picks, strm>>

\* An index that is reduced but never advanced.
NextIdxNoAdvance(idx, k) == idx % k
\* localIdx = (localIdx + 1) % len(cfg.LocalListenAddr)
NextIdx(idx, k) == (idx + 1) % k

\* session.AcceptStream() returns a stream: the target is picked round-robin
\* and the handler goroutine is started. Indexing an empty LocalListenAddr
\* panics.
RAcceptStream(s) ==
    /\ RRunning /\ rpc = "accepting"
    /\ strm[s].st = "pending" /\ strm[s].it = riter
    /\ IF rcfg.targets = 0
       THEN /\ RHalt("panic: index out of range")
            /\ UNCHANGED <<riter, rErrLog>>
       ELSE /\ strm' = [strm EXCEPT ![s].st = "dial", ![s].target = localIdx,
                                     ![s].stream = s]
            /\ picks' = Append(picks, localIdx)
            /\ localIdx' = NextIdx(localIdx, rcfg.targets)
            /\ rpc' = "loop"
            /\ UNCHANGED <<pVars, xVars, rcfg, rproc, riter, rslept, rWrote, rErrLog,
                           rTunnelConn, rSession, rStreamCount>>

\* session.AcceptStream() fails (the session has shut down): the slot is
\* given back, the loop is left, session and tunnelConn are closed.
RAcceptErr ==
    /\ RRunning /\ rpc = "accepting"
    /\ rSession = "closed"
    /\ rStreamCount' = [rStreamCount EXCEPT ![riter] = @ - 1]
    /\ rTunnelConn' = "closed"
    /\ rErrLog' = [rErrLog EXCEPT ![riter] = "Failed to accept yamux stream"]
    /\ rpc' = "backoff"
    /\ UNCHANGED <<pVars, xVars, rcfg, rproc, riter, rslept, rWrote, rSession,
                   localIdx, picks, strm>>

\* time.Sleep(3 * time.Second); continue
RSleep ==
    /\ RRunning /\ rpc = "backoff"
    /\ rslept' = rslept + BackoffSeconds
    /\ rpc' = "init"
    /\ UNCHANGED <<pVars, xVars, rcfg, rproc, riter, rWrote, rErrLog, rTunnelConn,
                   rSession, rLoopVars, strm>>

\* ------------------------------------------------------- R: environment
\* The public endpoint dies or the network drops the transport.
RLinkDown ==
    /\ RRunning /\ rTunnelConn = "open"
    /\ rTunnelConn' = "broken"
    /\ UNCHANGED <<pVars, xVars, rcfg, rproc, rSupVars, rSession, rLoopVars, strm>>

\* yamux: the session sees the transport fail and shuts down, which closes
\* the transport and every stream.
RSessionShutdown ==
    /\ RRunning /\ rSession = "open"
    /\ rTunnelConn \in {"broken", "closed"}
    /\ rSession' = "closed"
    /\ rTunnelConn' = "closed"
    /\ UNCHANGED <<pVars, xVars, rcfg, rproc, rSupVars, rLoopVars, strm>>

\* The public endpoint opens a stream on the live session; it waits for
\* AcceptStream. Streams are opened in the order of their numbers.
PeerOpenStream(s) ==
    /\ RRunning /\ rSession = "open" /\ rTunnelConn = "open"
    /\ strm[s].st = "none"
    /\ s > 1 => strm[s - 1].st # "none"
    /\ strm' = [strm EXCEPT ![s].st = "pending", ![s].it = riter]
    /\ UNCHANGED <<pVars, xVars, rcfg, rproc, rSupVars, rTunnelConn, rSession, rLoopVars>>

\* The stream's session is gone or the public endpoint closed the stream:
\* reads of the stream end.
StreamEnded(s) ==
    \/ strm[s].pEnd = "closed"
    \/ strm[s].it < riter
    \/ rSession = "closed"

\* The public endpoint closes its end of stream s.
PeerCloseStream(s) ==
    /\ RRunning /\ strm[s].st = "copy"
    /\ ~StreamEnded(s)
    /\ strm' = [strm EXCEPT ![s].pEnd = "closed"]
    /\ UNCHANGED <<pVars, xVars, rcfg, rproc, rSupVars, rTunnelConn, rSession, rLoopVars>>

\* The local service closes its end of the local connection.
LocalClose(s) ==
    /\ RRunning /\ strm[s].st = "copy" /\ strm[s].localConn = "open"
    /\ strm' = [strm EXCEPT ![s].localConn = "eof"]
    /\ UNCHANGED <<pVars, xVars, rcfg, rproc, rSupVars, rTunnelConn, rSession, rLoopVars>>

\* --------------------------------------------------- R: stream handlers
\* The handler has returned: the deferred localConn.Close(), streamCount--
\* and stream.Close() have run.
RReturned(s, how) ==
    [strm[s] EXCEPT !.st = "done", !.it = 0, !.target = 0, !.pEnd = "closed",
                    !.localConn = IF @ = "none" THEN "none" ELSE "closed",
                    !.toStream = "none", !.res = how, !.stream = 0,
                    !.local = 0]

\* A handler that returns without giving its slot back.
RReleaseNever(i) == rStreamCount
\* The deferred streamCount-- of a stream handler.
RRelease(i) == [rStreamCount EXCEPT ![i] = @ - 1]

\* A dial failure treated as fatal to the session.
HRDialFatal(s) ==
    /\ RRunning /\ strm[s].st = "dial"
    /\ \/ /\ strm' = [strm EXCEPT ![s].st = "copy", ![s].localConn = "open",
                                  ![s].toStream = "run",
                                  ![s].res = "dialled", ![s].local = s]
          /\ UNCHANGED <<rStreamCount, rSession, rTunnelConn>>
       \/ /\ strm' = [strm EXCEPT ![s] = RReturned(s, "dialfail")]
          /\ rStreamCount' = RRelease(strm[s].it)
          /\ rSession' = "closed"
          /\ rTunnelConn' = "closed"
    /\ UNCHANGED <<pVars, xVars, rcfg, rproc, rSupVars, localIdx, picks>>

\* net.Dial("tcp", localAddr): on failure the handler returns (the stream is
\* closed and the slot given back), else both copy directions start.
HRDial(s) ==
    /\ RRunning /\ strm[s].st = "dial"
    /\ \/ /\ strm' = [strm EXCEPT ![s].st = "copy", ![s].localConn = "open",
                                  ![s].toStream = "run",
                                  ![s].res = "dialled", ![s].local = s]
          /\ UNCHANGED rStreamCount
       \/ /\ strm' = [strm EXCEPT ![s] = RReturned(s, "dialfail")]
          /\ rStreamCount' = RRelease(strm[s].it)
    /\ UNCHANGED <<pVars, xVars, rcfg, rproc, rSupVars, rTunnelConn, rSession,
                   localIdx, picks>>

\* go io.Copy(localConn, stream): it runs until its read of the stream ends.
\* It closes nothing when it ends and nothing waits for it.
ToLocal(s) ==
    IF strm[s].st # "copy" THEN "none"
    ELSE IF StreamEnded(s) THEN "done"
    ELSE "run"

\* io.Copy(stream, localConn) ends when its read of localConn ends.
HRToStreamEnd(s) ==
    /\ RRunning /\ strm[s].st = "copy" /\ strm[s].toStream = "run"
    /\ strm[s].localConn = "eof"
    /\ strm' = [strm EXCEPT ![s].toStream = "done"]
    /\ UNCHANGED <<pVars, xVars, rcfg, rproc, rSupVars, rTunnelConn, rSession, rLoopVars>>

\* The local service sends data and the write to an ended stream fails.
HRToStreamWriteErr(s) ==
    /\ RRunning /\ strm[s].st = "copy" /\ strm[s].toStream = "run"
    /\ strm[s].localConn = "open" /\ StreamEnded(s)
    /\ strm' = [strm EXCEPT ![s].toStream = "done"]
    /\ UNCHANGED <<pVars, xVars, rcfg, rproc, rSupVars, rTunnelConn, rSession, rLoopVars>>

\* io.Copy(stream, localConn) has returned: the deferred calls run.
HRReturn(s) ==
    /\ RRunning /\ strm[s].st = "copy"
    /\ strm[s].toStream = "done"
    /\ strm' = [strm EXCEPT ![s] = RReturned(s, "copied")]
    /\ rStreamCount' = RRelease(strm[s].it)
    /\ UNCHANGED <<pVars, xVars, rcfg, rproc, rSupVars, rTunnelConn, rSession,
                   localIdx, picks>>

\* ------------------------------------------- R: the branch without yamux
\* client.go:181-200: one local connection for the whole tunnel.

\* An index kept from one iteration of the supervisor to the next.
NoMuxIdxKept == localIdx
\* var localIdx int: a new variable, zero, each time the branch is entered.
NoMuxIdx == 0

\* cfg.LocalListenAddr[localIdx], the index advanced, net.Dial: on failure
\* tunnelConn is closed and the supervisor backs off, else the two copies
\* start. Indexing an empty LocalListenAddr panics.
RDialNoMux ==
    /\ RRunning /\ rpc = "authed"
    /\ ~rcfg.useMux
    /\ IF rcfg.targets = 0
       THEN /\ RHalt("panic: index out of range")
            /\ UNCHANGED <<riter, rErrLog>>
       ELSE /\ picks' = Append(picks, NoMuxIdx)
            /\ localIdx' = NextIdx(NoMuxIdx, rcfg.targets)
            /\ \/ /\ strm' = [strm EXCEPT ![1] =
                         [NoStream EXCEPT !.st = "copy", !.it = riter,
                                          !.target = NoMuxIdx,
                                          !.localConn = "open",
                                          !.toStream = "run",
                                          !.res = "dialled", !.local = 1]]
                  /\ rpc' = "splice"
                  /\ UNCHANGED <<rTunnelConn, rErrLog>>
               \/ /\ rTunnelConn' = "closed"
                  /\ rpc' = "backoff"
                  /\ rErrLog' = [rErrLog EXCEPT ![riter] =
                                     "Failed to connect to local service"]
                  /\ UNCHANGED strm
            /\ UNCHANGED <<pVars, xVars, rcfg, rproc, riter, rslept, rWrote,
                           rSession, rStreamCount>>

\* io.Copy(tunnelConn, localConn) has returned: localConn.Close(),
\* tunnelConn.Close(), then the backoff.
SpliceOver ==
    /\ strm' = [strm EXCEPT ![1] = RReturned(1, "spliced")]
    /\ rTunnelConn' = "closed"
    /\ rErrLog' = [rErrLog EXCEPT ![riter] = "Connection closed"]
    /\ rpc' = "backoff"
    /\ UNCHANGED <<pVars, xVars, rcfg, rproc, riter, rslept, rWrote, rSession,
                   rLoopVars>>

\* Its read of localConn ends: the local service closed.
RSpliceEnd ==
    /\ RRunning /\ rpc = "splice"
    /\ strm[1].localConn = "eof"
    /\ SpliceOver

\* The local service sends data and the write to a broken tunnelConn fails.
RSpliceWriteErr ==
    /\ RRunning /\ rpc = "splice"
    /\ strm[1].localConn = "open" /\ rTunnelConn = "broken"
    /\ SpliceOver

RSupervisor ==
    \/ RLoad \/ RLoadFatal \/ RHandshake \/ RSession \/ RLoopTop
    \/ RAcceptErr \/ RSleep
    \/ \E s \in Streams : RAcceptStream(s)

RHandler(s) ==
    \/ HRDial(s) \/ HRToStreamEnd(s) \/ HRReturn(s)

REnvironment ==
    \/ RLinkDown
    \/ \E s \in Streams : PeerOpenStream(s) \/ PeerCloseStream(s) \/ LocalClose(s)
                          \/ HRToStreamWriteErr(s)

RNext ==
    \/ RSupervisor
    \/ RSessionShutdown
    \/ \E s \in Streams : RHandler(s)
    \/ REnvironment

\* The private endpoint alone; the public endpoint of the model is off.
RInit ==
    /\ PStart([rev |-> 2, cap |-> 0, addrs |-> {}, useMux |-> TRUE], "off")
    /\ \E c \in RConfigs : RStart(c, "running")
    /\ XIdle

RSpec == RInit /\ [][RNext]_vars

\* The private endpoint with useMux = false.
RNoMuxConfigs ==
    {[cap |-> c, targets |-> k, useMux |-> FALSE] :
        c \in 0..MaxCap, k \in 0..MaxTargets}

RNoMuxNext ==
    \/ RLoad \/ RLoadFatal \/ RHandshake \/ RDialNoMux \/ RSpliceEnd \/ RSleep
    \/ RLinkDown \/ LocalClose(1) \/ RSpliceWriteErr

RNoMuxInit ==
    /\ PStart([rev |-> 2, cap |-> 0, addrs |-> {}, useMux |-> TRUE], "off")
    /\ \E c \in RNoMuxConfigs : RStart(c, "running")
    /\ XIdle

RNoMuxSpec == RNoMuxInit /\ [][RNoMuxNext]_vars

\* A goroutine of R that can take its next step takes it; nothing is assumed
\* of the public endpoint, the local services or the network.
RProgramFairness ==
    /\ WF_vars(RLoad \/ RLoadFatal)
    /\ WF_vars(RHandshake) /\ WF_vars(RSession) /\ WF_vars(RLoopTop)
    /\ WF_vars(RAcceptErr) /\ WF_vars(RSleep)
    /\ WF_vars(\E s \in Streams : RAcceptStream(s))
    /\ WF_vars(RSessionShutdown)
    /\ \A s \in Streams : WF_vars(RHandler(s))

RFairSpec == RSpec /\ RProgramFairness

\* =========================================================================
\* The bytes of one pair. An external user U is connected to the public
\* endpoint, whose handler holds userConn and a stream (part_001:485-488, or
\* handleStream at 237-258 in the first revision); the private endpoint's
\* handler holds the stream and localConn to the local service L
\* (client.go:171-174). The session stays up. Bytes are numbered in the order
\* in which they are sent.
\* =========================================================================
\* The first n bytes an end sends.
Sent(n) == [j \in 1..n |-> j]

\* U writes a byte on its connection (the public endpoint has not closed it).
USend ==
    /\ relay.uEnd = "open" /\ relay.pH = "copy"
    /\ wire.uSent < MaxBytes
    /\ wire' = [wire EXCEPT !.uSent = @ + 1, !.upConn = Append(@, wire.uSent + 1)]
    /\ UNCHANGED <<pVars, rVars, fVars, tVars, relay>>

\* U closes its sending side and goes on reading.
UShut ==
    /\ relay.uEnd = "open"
    /\ relay' = [relay EXCEPT !.uEnd = "shut"]
    /\ UNCHANGED <<pVars, rVars, fVars, tVars, wire>>

\* U closes its connection.
UClose ==
    /\ relay.uEnd \in {"open", "shut"}
    /\ relay' = [relay EXCEPT !.uEnd = "closed"]
    /\ UNCHANGED <<pVars, rVars, fVars, tVars, wire>>

\* L writes a byte on localConn (the private endpoint has not closed it).
LSend ==
    /\ relay.lEnd = "open" /\ relay.rH = "copy"
    /\ wire.lSent < MaxBytes
    /\ wire' = [wire EXCEPT !.lSent = @ + 1, !.dnConn = Append(@, wire.lSent + 1)]
    /\ UNCHANGED <<pVars, rVars, fVars, tVars, relay>>

\* L closes its sending side and goes on reading.
LShut ==
    /\ relay.lEnd = "open"
    /\ relay' = [relay EXCEPT !.lEnd = "shut"]
    /\ UNCHANGED <<pVars, rVars, fVars, tVars, wire>>

\* L closes its connection.
LClose ==
    /\ relay.lEnd \in {"open", "shut"}
    /\ relay' = [relay EXCEPT !.lEnd = "closed"]
    /\ UNCHANGED <<pVars, rVars, fVars, tVars, wire>>

\* go io.Copy(stream, userConn): a byte read from userConn is written to the
\* stream.
PUpCopy ==
    /\ relay.pUp = "run" /\ relay.pH = "copy"
    /\ wire.upConn # <<>>
    /\ wire' = [wire EXCEPT !.upConn = Tail(@),
                            !.upStream = Append(@, Head(wire.upConn))]
    /\ UNCHANGED <<pVars, rVars, fVars, tVars, relay>>

\* Its read of userConn ends: U sends no more, or the handler has returned
\* and closed userConn.
PUpEnd ==
    /\ relay.pUp = "run"
    /\ \/ wire.upConn = <<>> /\ relay.uEnd # "open"
       \/ relay.pH = "returned"
    /\ relay' = [relay EXCEPT !.pUp = "done"]
    /\ UNCHANGED <<pVars, rVars, fVars, tVars, wire>>

\* go io.Copy(localConn, stream): a byte read from the stream is written to
\* localConn, where L reads it.
RToLocalCopy ==
    /\ relay.rToLocal = "run" /\ relay.rH = "copy"
    /\ relay.lEnd # "closed"
    /\ wire.upStream # <<>>
    /\ wire' = [wire EXCEPT !.upStream = Tail(@),
                            !.lRecv = Append(@, Head(wire.upStream))]
    /\ UNCHANGED <<pVars, rVars, fVars, tVars, relay>>

\* It ends: the stream is at its end (the public side closed it), the handler
\* has returned and closed the stream and localConn, or the write to a
\* localConn L has closed fails. Nothing is closed here and nothing waits for
\* it.
RToLocalEnd ==
    /\ relay.rToLocal = "run"
    /\ \/ wire.upStream = <<>> /\ relay.pH = "returned"
       \/ relay.rH = "returned"
       \/ wire.upStream # <<>> /\ relay.lEnd = "closed"
    /\ relay' = [relay EXCEPT !.rToLocal = "done"]
    /\ UNCHANGED <<pVars, rVars, fVars, tVars, wire>>

\* io.Copy(stream, localConn): a byte read from localConn is written to the
\* stream.
RToStreamCopy ==
    /\ relay.rToStream = "run" /\ relay.rH = "copy"
    /\ wire.dnConn # <<>>
    /\ wire' = [wire EXCEPT !.dnConn = Tail(@),
                            !.dnStream = Append(@, Head(wire.dnConn))]
    /\ UNCHANGED <<pVars, rVars, fVars, tVars, relay>>

\* Its read of localConn ends: L sends no more.
RToStreamEnd ==
    /\ relay.rToStream = "run" /\ relay.rH = "copy"
    /\ wire.dnConn = <<>> /\ relay.lEnd # "open"
    /\ relay' = [relay EXCEPT !.rToStream = "done"]
    /\ UNCHANGED <<pVars, rVars, fVars, tVars, wire>>

\* The private handler returns when io.Copy(stream, localConn) has: the
\* deferred localConn.Close() and stream.Close() run.
RelayRReturn ==
    /\ relay.rH = "copy" /\ relay.rToStream = "done"
    /\ relay' = [relay EXCEPT !.rH = "returned"]
    /\ UNCHANGED <<pVars, rVars, fVars, tVars, wire>>

\* io.Copy(userConn, stream): a byte read from the stream is written to
\* userConn, where U reads it.
PDownCopy ==
    /\ relay.pDown = "run" /\ relay.pH = "copy"
    /\ relay.uEnd # "closed"
    /\ wire.dnStream # <<>>
    /\ wire' = [wire EXCEPT !.dnStream = Tail(@),
                            !.uRecv = Append(@, Head(wire.dnStream))]
    /\ UNCHANGED <<pVars, rVars, fVars, tVars, relay>>

\* It ends: the stream is at its end (the private side closed it), or the
\* write to a userConn U has closed fails.
PDownEnd ==
    /\ relay.pDown = "run" /\ relay.pH = "copy"
    /\ \/ wire.dnStream = <<>> /\ relay.rH = "returned"
       \/ wire.dnStream # <<>> /\ relay.uEnd = "closed"
    /\ relay' = [relay EXCEPT !.pDown = "done"]
    /\ UNCHANGED <<pVars, rVars, fVars, tVars, wire>>

\* The public handler returns: in the second revision when
\* io.Copy(userConn, stream) has, in handleStream when wg.Wait() has (both
\* copies are done). The deferred stream.Close() and userConn.Close() run.
RelayPReturn ==
    /\ relay.pH = "copy"
    /\ IF cfg.rev = 1
       THEN relay.pUp = "done" /\ relay.pDown = "done"
       ELSE relay.pDown = "done"
    /\ relay' = [relay EXCEPT !.pH = "returned"]
    /\ UNCHANGED <<pVars, rVars, fVars, tVars, wire>>

RelayNext ==
    \/ USend \/ UShut \/ UClose \/ LSend \/ LShut \/ LClose
    \/ PUpCopy \/ PUpEnd \/ PDownCopy \/ PDownEnd \/ RelayPReturn
    \/ RToLocalCopy \/ RToLocalEnd \/ RToStreamCopy \/ RToStreamEnd
    \/ RelayRReturn

\* Both endpoints are past the handshake and hold the pair; either revision
\* of the public handler.
RelayInit ==
    /\ \E r \in Revs :
           PStart([rev |-> r, cap |-> 0, addrs |-> {}, useMux |-> TRUE], "off")
    /\ RStart([cap |-> 0, targets |-> 1, useMux |-> TRUE], "off")
    /\ relay = Paired
    /\ wire = NoWire
    /\ fprog = "simple"
    /\ fwd = [c \in Conns |-> NoFwd]
    /\ tap = NoTap

RelaySpec == RelayInit /\ [][RelayNext]_vars

\* =========================================================================
\* The plain forwarders: handleConnection of src/simple/simple.go (63-99)
\* and handleEntryConnection of src/p2p/entry/entry.go (61-81). One handler
\* per accepted client connection dials the remote side, starts one goroutine
\* per copy direction and waits for one value on the unbuffered channel done.
\* =========================================================================
\* h: "idle", "dial", "wait" (<-done), "returned". clientConn, remoteConn:
\* "none", "open", "eof" (the peer has closed), "closed" (the handler closed
\* it). toRemote, toClient: the two goroutines, "none", "copy", "send"
\* (at done <- struct{}{}), "exit".
Dirs == {"toRemote", "toClient"}

\* listener.Accept() returns a connection and its handler is started.
\* Clients connect in the order of their numbers.
FAccept(c) ==
    /\ fwd[c].h = "idle"
    /\ c > 1 => fwd[c - 1].h # "idle"
    /\ fwd' = [fwd EXCEPT ![c].h = "dial", ![c].clientConn = "open"]
    /\ UNCHANGED <<pVars, rVars, dVars, tVars, fprog>>

\* net.Dial (tls.Dial in entry.go): on failure the handler returns and the
\* deferred clientConn.Close() runs, else both goroutines are started and
\* the handler waits on done.
FDial(c) ==
    /\ fwd[c].h = "dial"
    /\ \/ fwd' = [fwd EXCEPT ![c].h = "wait", ![c].remoteConn = "open",
                             ![c].toRemote = "copy", ![c].toClient = "copy"]
       \/ fwd' = [fwd EXCEPT ![c].h = "returned", ![c].clientConn = "closed",
                             ![c].res = "dialfail"]
    /\ UNCHANGED <<pVars, rVars, dVars, tVars, fprog>>

\* The client, or the remote side, closes its end.
FClientClose(c) ==
    /\ fwd[c].clientConn = "open"
    /\ fwd' = [fwd EXCEPT ![c].clientConn = "eof"]
    /\ UNCHANGED <<pVars, rVars, dVars, tVars, fprog>>

FRemoteClose(c) ==
    /\ fwd[c].remoteConn = "open"
    /\ fwd' = [fwd EXCEPT ![c].remoteConn = "eof"]
    /\ UNCHANGED <<pVars, rVars, dVars, tVars, fprog>>

\* The connection a direction reads.
ReadsFrom(c, d) == IF d = "toRemote" THEN fwd[c].clientConn ELSE fwd[c].remoteConn

\* io.Copy returns: its read has ended (the peer closed, or the handler
\* closed the connection). The goroutine goes on to done <- struct{}{}.
FCopyEnd(c, d) ==
    /\ fwd[c][d] = "copy"
    /\ ReadsFrom(c, d) \in {"eof", "closed"}
    /\ fwd' = [fwd EXCEPT ![c][d] = "send"]
    /\ UNCHANGED <<pVars, rVars, dVars, tVars, fprog>>

\* done is unbuffered: done <- struct{}{} completes together with the
\* handler's <-done. The goroutine exits; the handler returns and the
\* deferred remoteConn.Close() and clientConn.Close() run.
FSendDone(c, d) ==
    /\ fwd[c][d] = "send"
    /\ fwd[c].h = "wait"
    /\ fwd' = [fwd EXCEPT ![c][d] = "exit", ![c].h = "returned",
                          ![c].clientConn = "closed",
                          ![c].remoteConn = "closed", ![c].res = "forwarded"]
    /\ UNCHANGED <<pVars, rVars, dVars, tVars, fprog>>

FwdNext ==
    \E c \in Conns :
        \/ FAccept(c) \/ FDial(c) \/ FClientClose(c) \/ FRemoteClose(c)
        \/ \E d \in Dirs : FCopyEnd(c, d) \/ FSendDone(c, d)

\* Either forwarder, started, with no client yet.
FwdInit ==
    /\ PStart([rev |-> 2, cap |-> 0, addrs |-> {}, useMux |-> TRUE], "off")
    /\ RStart([cap |-> 0, targets |-> 1, useMux |-> TRUE], "off")
    /\ relay = NoRelay
    /\ wire = NoWire
    /\ fprog \in {"simple", "entry"}
    /\ fwd = [c \in Conns |-> NoFwd]
    /\ tap = NoTap

FwdSpec == FwdInit /\ [][FwdNext]_vars

\* =========================================================================
\* The bytes of the tunnel in the branch without yamux (part_001:494-533),
\* in the direction from the private endpoint to the users. tunnelConn is
\* read by the goroutine that watches it and by io.Copy(userConn, tunnelConn)
\* of every handler; a byte goes to whichever read gets it. Bytes are
\* numbered in the order in which they are written. The users keep their
\* connections open.
\* =========================================================================
\* Listeners bound, done made, the watching goroutine started.
Tapped == [NoTap EXCEPT !.conn = "open", !.watcher = "read", !.done = "open",
                        !.sup = "wait_done"]

\* userListener.Accept() returns user u's connection and its handler starts
\* its copies.
TapAccept(u) ==
    /\ tap.h[u] = "none"
    /\ tap' = [tap EXCEPT !.h[u] = "copy"]
    /\ UNCHANGED <<pVars, rVars, dVars, fVars>>

\* The private endpoint writes a byte on the tunnel.
TapSend ==
    /\ tap.conn = "open"
    /\ tap.rSent < MaxBytes
    /\ tap' = [tap EXCEPT !.rSent = @ + 1, !.tunnel = Append(@, tap.rSent + 1)]
    /\ UNCHANGED <<pVars, rVars, dVars, fVars>>

\* The private endpoint closes the tunnel; what it wrote can still be read.
TapPeerClose ==
    /\ tap.conn = "open"
    /\ tap' = [tap EXCEPT !.conn = "eof"]
    /\ UNCHANGED <<pVars, rVars, dVars, fVars>>

\* tunnelConn.Read(buf) returns one byte: err is nil, the byte stays in buf
\* and the goroutine ends.
TapWatchRead ==
    /\ tap.watcher = "read"
    /\ tap.conn # "closed" /\ tap.tunnel # <<>>
    /\ tap' = [tap EXCEPT !.tunnel = Tail(@), !.buf = <<Head(tap.tunnel)>>,
                          !.watcher = "exit"]
    /\ UNCHANGED <<pVars, rVars, dVars, fVars>>

\* tunnelConn.Read(buf) returns an error: close(done).
TapWatchErr ==
    /\ tap.watcher = "read"
    /\ \/ tap.conn = "eof" /\ tap.tunnel = <<>>
       \/ tap.conn = "closed"
    /\ tap' = [tap EXCEPT !.done = "closed", !.watcher = "exit"]
    /\ UNCHANGED <<pVars, rVars, dVars, fVars>>

\* <-done, tunnelConn.Close().
TapSupDone ==
    /\ tap.sup = "wait_done" /\ tap.done = "closed"
    /\ tap' = [tap EXCEPT !.sup = "backoff", !.conn = "closed"]
    /\ UNCHANGED <<pVars, rVars, dVars, fVars>>

\* io.Copy(userConn, tunnelConn) of u's handler reads a byte and writes it to
\* userConn.
TapDownCopy(u) ==
    /\ tap.h[u] = "copy"
    /\ tap.conn # "closed" /\ tap.tunnel # <<>>
    /\ tap' = [tap EXCEPT !.tunnel = Tail(@),
                          !.uRecv[u] = Append(@, Head(tap.tunnel))]
    /\ UNCHANGED <<pVars, rVars, dVars, fVars>>

\* Its read of tunnelConn ends; the handler returns and closes userConn.
TapDownEnd(u) ==
    /\ tap.h[u] = "copy"
    /\ \/ tap.conn = "eof" /\ tap.tunnel = <<>>
       \/ tap.conn = "closed"
    /\ tap' = [tap EXCEPT !.h[u] = "returned"]
    /\ UNCHANGED <<pVars, rVars, dVars, fVars>>

TapNext ==
    \/ TapSend \/ TapPeerClose \/ TapWatchRead \/ TapWatchErr \/ TapSupDone
    \/ \E u \in Users : TapAccept(u) \/ TapDownCopy(u) \/ TapDownEnd(u)

TapInit ==
    /\ PStart([rev |-> 2, cap |-> 0, addrs |-> {}, useMux |-> FALSE], "off")
    /\ RStart([cap |-> 0, targets |-> 1, useMux |-> TRUE], "off")
    /\ relay = NoRelay
    /\ wire = NoWire
    /\ fprog = "simple"
    /\ fwd = [c \in Conns |-> NoFwd]
    /\ tap = Tapped

TapSpec == TapInit /\ [][TapNext]_vars

\* ------------------------------------------------------------ the system
Supervisor ==
    \/ SupLoad \/ SupLoadFatal \/ SupAccept \/ SupHandshake \/ SupSession
    \/ SupBind \/ SupWaitStop \/ SupFallThrough \/ SupSleep

Acceptor(i, a) ==
    \/ AccTop(i, a)
    \/ AccAcceptErr(i, a)
    \/ \E u \in Users : AccAccept(i, a, u)

Handler(u) ==
    \/ HAdmit(u) \/ HOpenStream(u) \/ HCheckStop(u) \/ HCloseStop(u)
    \/ HCopyUpEnd(u) \/ HCopyDownEnd(u) \/ HReturn(u)

Environment ==
    \/ \E i \in Iterations : LinkDown(i)
    \/ \E u \in Users : UserClose(u) \/ RStreamClose(u)
                        \/ HCopyUpWriteErr(u) \/ HCopyDownWriteErr(u)
    \/ \E u \in Users, a \in Addrs : UserConnect(u, a)

Next ==
    \/ Supervisor
    \/ \E i \in Iterations : SessionShutdown(i)
    \/ \E i \in Iterations, a \in Addrs : Acceptor(i, a)
    \/ \E u \in Users : Handler(u)
    \/ Environment

\* The public endpoint alone; the private endpoint of the model is off.
Init ==
    /\ \E c \in {c \in Configs : c.rev = 1 => c.cap = 0} : PStart(c, "running")
    /\ RStart([cap |-> 0, targets |-> 1, useMux |-> TRUE], "off")
    /\ XIdle

Spec == Init /\ [][Next]_vars

\* What the program's own scheduling guarantees: a goroutine that can take
\* its next step takes it. Nothing is assumed of the tunnel peer, the users,
\* the network or the private endpoint: no tunnel connection, user
\* connection, close, data or system-call failure is ever forced.
ProgramFairness ==
    /\ WF_vars(SupLoad \/ SupLoadFatal)
    /\ WF_vars(SupHandshake) /\ WF_vars(SupSession) /\ WF_vars(SupBind)
    /\ WF_vars(SupWaitStop) /\ WF_vars(SupFallThrough) /\ WF_vars(SupSleep)
    /\ \A i \in Iterations : WF_vars(SessionShutdown(i))
    /\ \A i \in Iterations, a \in Addrs :
         /\ WF_vars(AccTop(i, a))
         /\ WF_vars(listeners[i][a] = "closed" /\ AccAcceptErr(i, a))
         /\ WF_vars(\E u \in Users : AccAccept(i, a, u))
    /\ \A u \in Users : WF_vars(Handler(u))

FairSpec == Spec /\ ProgramFairness

\* The public endpoint without yamux.
NoMuxSupervisor ==
    \/ SupLoad \/ SupLoadFatal \/ SupAccept \/ SupHandshake \/ SupBindNoMux
    \/ SupWaitDone \/ SupSleep

NoMuxAcceptor(i, a) ==
    \/ NAccAcceptErr(i, a)
    \/ \E u \in Users : NAccAccept(i, a, u)

NoMuxHandler(u) ==
    \/ HSplice(u) \/ HCopyUpEnd(u) \/ NCopyDownEnd(u) \/ NReturn(u)

NoMuxEnvironment ==
    \/ \E i \in Iterations : LinkDown(i) \/ WatchReadByte(i)
    \/ \E u \in Users : UserClose(u) \/ NCopyUpWriteErr(u) \/ NCopyDownWriteErr(u)
    \/ \E u \in Users, a \in Addrs : UserConnect(u, a)

NoMuxNext ==
    \/ NoMuxSupervisor
    \/ \E i \in Iterations : WatchReadErr(i)
    \/ \E i \in Iterations, a \in Addrs : NoMuxAcceptor(i, a)
    \/ \E u \in Users : NoMuxHandler(u)
    \/ NoMuxEnvironment

NoMuxConfigs ==
    {[rev |-> 2, cap |-> 0, addrs |-> 1..n, useMux |-> FALSE] :
        n \in 0..MaxSpliceAddr}

NoMuxInit ==
    /\ \E c \in NoMuxConfigs : PStart(c, "running")
    /\ RStart([cap |-> 0, targets |-> 1, useMux |-> TRUE], "off")
    /\ XIdle

NoMuxSpec == NoMuxInit /\ [][NoMuxNext]_vars

\* The Go scheduler runs every goroutine that can run: the supervisor, the
\* goroutine that reads tunnelConn, the acceptors and the handlers. Nothing
\* is assumed of the peer, the users or the network.
NoMuxFairness ==
    /\ WF_vars(SupLoad \/ SupLoadFatal)
    /\ WF_vars(SupHandshake) /\ WF_vars(SupBindNoMux)
    /\ WF_vars(SupWaitDone) /\ WF_vars(SupSleep)
    /\ \A i \in Iterations : WF_vars(WatchReadErr(i))
    /\ \A i \in Iterations, a \in Addrs :
           WF_vars(\E u \in Users : NAccAccept(i, a, u))
    /\ \A u \in Users : WF_vars(NoMuxHandler(u))

NoMuxFairSpec == NoMuxSpec /\ NoMuxFairness

\* Either endpoint, each with the other as its environment.
EitherInit == Init \/ RInit
EitherNext == Next \/ RNext
EitherSpec == EitherInit /\ [][EitherNext]_vars

\* ----------------------------------------------------------------- claims
\* The supervisor is at the top of the loop and the model explores no further
\* iteration.
IterBoundReached == pc = "init" /\ iter = MaxIter

\* The ciphertext of the handshake as the private endpoint makes it.
GoodToken == EncryptPKCS1v15(PrivateKey, SecretToken)

\* Iteration i has a session, a user listener or a handler.
HasSession(i) ==
    \/ session[i] # "none"
    \/ stopChan[i] # "none"
    \/ \E a \in Addrs : listeners[i][a] # "none"
    \/ \E u \in Users : usr[u].it = i

\* C1: a Session is constructed in an iteration (and a user listener bound,
\* a stream opened) only if the 256 bytes read from the tunnel transport are
\* the ciphertext of the configured secretToken; an iteration whose peer
\* wrote anything else has no Session, and no iteration not yet begun has one.
C1_AuthSoundness ==
    \A i \in Iterations :
        /\ i > iter => ~HasSession(i)
        /\ i = iter /\ HasSession(i) => encToken = GoodToken

\* C1 witness: iteration 1 was authenticated and served, and in iteration 2
\* a peer that wrote a full ciphertext of another token was turned away.
C1_Witness ==
    /\ iter = 2 /\ pc = "backoff"
    /\ session[1] # "none"
    /\ encToken.len = EncTokenLen /\ encToken.key = PrivateKey
    /\ encToken.pt # SecretToken
    /\ tunnelConn[2] = "closed" /\ ~HasSession(2)

\* The handlers of iteration i that passed admission and have not finished.
Admitted(i) ==
    {u \in Users : usr[u].it = i /\ usr[u].st \in {"open", "check", "close", "copy"}}

\* C2: with maxConcurrentConnections = N > 0 the number of handlers that
\* passed admission and have not finished, and the counter that tracks it,
\* never exceed N on any session.
C2_CounterWithinCap ==
    cfg.cap > 0 =>
        \A i \in Iterations :
            /\ Cardinality(Admitted(i)) <= cfg.cap
            /\ streamCount[i] <= cfg.cap

\* C2 witness: a session at its cap while one more handler has been started.
C2_Witness ==
    \E i \in Iterations :
        /\ cfg.cap > 0 /\ streamCount[i] = cfg.cap
        /\ Cardinality(Admitted(i)) = cfg.cap
        /\ \E u \in Users : usr[u].it = i /\ usr[u].st = "spawned"

\* C3: a handler that finds cap > 0 and count >= cap returns at once: its
\* connection is closed, OpenStream is never called for it, the counter is
\* unchanged and no other connection, stream or session is touched.
C3_RejectAtCap ==
    [][\A u \in Users :
          (/\ usr[u].st = "spawned" /\ usr'[u].st # "spawned"
           /\ cfg.cap > 0 /\ streamCount[usr[u].it] >= cfg.cap
           /\ proc' = "running")
          => /\ usr'[u].st = "done" /\ usr'[u].res = "rejected"
             /\ usr'[u].up = "none" /\ usr'[u].down = "none"
             /\ streamCount' = streamCount
             /\ session' = session /\ stopChan' = stopChan
             /\ \A v \in Users \ {u} : usr'[v] = usr[v]]_vars

\* C3 witness: a connection was rejected while another is being copied on a
\* session at its cap.
C3_Witness ==
    \E u, v \in Users :
        /\ usr[u].res = "rejected" /\ usr[u].st = "done"
        /\ usr[v].st = "copy" /\ usr[v].up = "run" /\ usr[v].down = "run"
        /\ streamCount[usr[v].it] = cfg.cap

\* C4: stopChan is closed exactly once: no two handlers both run
\* close(stopChan), so the process never panics closing a closed channel.
C4_StopChanClosedOnce == proc # "panic: close of closed channel"

\* C5: after the tunnel transport breaks while the supervisor is SERVING
\* iteration i, the supervisor eventually leaves SERVING (for BACKOFF and
\* INIT), whether or not another user connection arrives (or the process
\* has ended, or the model's last iteration is over).
C5_BreakReachesSupervisor ==
    \A i \in Iterations :
        (pc = "serving" /\ iter = i /\ tunnelConn[i] \in {"broken", "closed"})
            ~> (pc # "serving" \/ ~Running \/ IterBoundReached)

\* C6: once the acceptors of iteration i have been started, the supervisor
\* is at the top of the loop again, or in a later iteration, only after the
\* termination flag was set and every user listener, the session and the
\* tunnel transport of iteration i were closed, and after the 3 s sleep.
C6_NextIterationAfterTeardown ==
    \A i \in Iterations :
        (stopChan[i] # "none" /\ (iter > i \/ (iter = i /\ pc = "init")))
        => /\ stopChan[i] = "closed"
           /\ \A a \in Addrs : listeners[i][a] # "bound"
           /\ session[i] = "closed"
           /\ tunnelConn[i] = "closed"
           /\ iter = i => slept >= BackoffSeconds

\* C7: the public endpoint never holds two open tunnel transports: no tunnel
\* connection is accepted while the transport of an earlier iteration is open.
C7_OneTunnelTransport ==
    Cardinality({i \in Iterations : tunnelConn[i] = "open"}) <= 1

\* C8: no user connection is accepted by an acceptor of an iteration whose
\* termination flag is already set.
C8_NoAcceptAfterStop ==
    [][\A u \in Users :
          (usr[u].st = "queued" /\ usr'[u].st = "spawned")
          => stopChan[usr[u].it] # "closed"]_vars

\* C9: once the external user has closed a connection that is being copied
\* (rev 2), the handler eventually returns (stream closed, counter
\* decremented), even if the private endpoint sends nothing more on the
\* stream (or the process has ended, or the model's last iteration is over).
C9_UserCloseEndsStream ==
    \A u \in Users :
        (cfg.rev = 2 /\ usr[u].st = "copy" /\ usr[u].peerEnd = "closed")
            ~> (usr[u].st # "copy" \/ ~Running \/ IterBoundReached)

\* C10: in handleStream (rev 1), once either copy direction has finished
\* the copier can return: wg.Wait() does not need the other direction.
C10_FirstDoneReturns ==
    \A u \in Users :
        (cfg.rev = 1 /\ usr[u].st = "copy"
         /\ (usr[u].up = "done" \/ usr[u].down = "done"))
        => ENABLED HReturn(u)

\* The private endpoint's supervisor is at the top of the loop and the model
\* explores no further iteration.
RIterBoundReached == rpc = "init" /\ riter = MaxIter

\* The session that carried stream s has ended.
SessionEnded(s) == strm[s].it < riter \/ rSession = "closed"

\* C11: when a session of the private endpoint (here without a cap on its
\* streams) has ended, the local
\* connection paired with each of its streams is eventually closed (the
\* stream's handler returns), even when the local service sends nothing and
\* does not close (or the process has ended, or the model's last iteration
\* is over).
C11_SessionEndClosesLocal ==
    \A s \in Streams :
        (rcfg.cap = 0 /\ strm[s].st = "copy" /\ SessionEnded(s))
            ~> (strm[s].st # "copy" \/ ~RRunning \/ RIterBoundReached)

\* A period without failures: whenever the supervisor can get past a step
\* with no failure (the files load and the tunnel address binds, a peer
\* connects with the right token, yamux accepts its configuration, a user
\* address binds), it eventually does.
NoFailures ==
    /\ WF_vars(SupLoad /\ pc' = "accept")
    /\ WF_vars(SupAccept /\ encToken' = GoodToken)
    /\ WF_vars(SupSession /\ pc' = "session_up")
    /\ WF_vars(SupBind /\ pc' = "serving")

RecoverSpec == FairSpec /\ NoFailures

\* Iteration i has failed: early (the supervisor backs off) or by a failed
\* OpenStream (the termination flag is set).
FailedIn(i) == iter = i /\ (pc = "backoff" \/ stopChan[i] = "closed")

\* A later iteration fails in turn: it backs off, or its peer does not
\* present the token.
FailsAfter(i) ==
    /\ iter > i
    /\ pc = "backoff" \/ (pc = "handshake" /\ encToken # GoodToken)

\* C12: on the public endpoint, after an iteration has failed and while
\* further iterations remain, the supervisor eventually is SERVING in a later
\* iteration, unless a later iteration fails in turn or the configuration
\* can no longer be loaded.
C12_ServingAgain ==
    \A i \in 1..(MaxIter - 1) :
        (Running /\ FailedIn(i))
            ~> (\/ iter > i /\ pc = "serving"
                \/ FailsAfter(i)
                \/ proc = "exited")

\* C13: on the public endpoint, whenever the supervisor begins an iteration
\* after the first, it has slept the backoff since the previous iteration
\* began.
C13_SleepBetweenIterations ==
    [][(iter >= 1 /\ iter' = iter + 1) => slept >= BackoffSeconds]_vars

\* Iteration i logged one of the three handshake failures.
HandshakeFailed(i) ==
    errLog[i] \in {"Failed to read encrypted token", "Failed to decrypt token",
                   "Invalid token from client"}

\* C14: on the public endpoint, an iteration whose handshake failed has its
\* tunnel transport closed, has no session and no user listener, and the
\* supervisor is not back in the handshake on that transport: it is in the
\* backoff or, having slept, at the top of the loop.
C14_HandshakeFailure ==
    \A i \in Iterations :
        HandshakeFailed(i) =>
            /\ tunnelConn[i] = "closed"
            /\ session[i] = "none"
            /\ stopChan[i] = "none"
            /\ \A a \in Addrs : listeners[i][a] = "none"
            /\ (Running /\ iter = i) =>
                   /\ pc \in {"backoff", "init"}
                   /\ pc = "init" => slept >= BackoffSeconds

\* After a failed handshake, the next iteration accepts a peer with the right
\* token and serves it.
C14_Witness ==
    /\ MaxIter >= 2
    /\ HandshakeFailed(1)
    /\ iter = 2 /\ pc = "serving"
    /\ encToken = GoodToken
    /\ tunnelConn[2] = "open" /\ session[2] = "open"
    /\ \E a \in Addrs : listeners[2][a] = "bound"

\* C15: the process of the public endpoint has ended only if the last thing
\* its supervisor did was to fail to load the configuration file (a failed
\* accept of a user connection, which the claim does not list, is C18's
\* case and left aside here).
C15_OnlyConfigLoadIsFatal ==
    ~Running =>
        \/ proc = "exited" /\ errLog[iter] = "Failed to open config"
        \/ proc = "panic: nil pointer dereference"

\* C16: on the public endpoint, a step in which the supervisor fails to load
\* its key ends the process.
C16_KeyLoadFailureIsFatal ==
    [][(errLog' # errLog /\ errLog'[iter'] = "Failed to load private key")
          => proc' = "exited"]_vars

\* C17: on the public endpoint a session is constructed only once the
\* handshake of the iteration has succeeded, a user listener is bound only
\* when the session of its iteration has been constructed, and a stream is
\* opened only on such a session; on the private endpoint a stream is accepted only
\* after the handshake token has been written.
C17_HandshakeFirst ==
    [][/\ \A i \in Iterations :
            /\ (session[i] = "none" /\ session'[i] # "none") =>
                   /\ i = iter /\ pc = "authed"
                   /\ HandshakeOk(encToken, tunnelConn[i])
            /\ \A a \in Addrs :
                   (listeners[i][a] = "none" /\ listeners'[i][a] = "bound") =>
                       (i = iter /\ session[i] # "none")
       /\ \A u \in Users :
            (usr[u].st # "copy" /\ usr'[u].st = "copy") =>
                /\ session[usr[u].it] = "open"
                /\ listeners[usr[u].it][usr[u].ad] # "none"
       /\ \A s \in Streams :
            (strm[s].st = "pending" /\ strm'[s].st = "dial") => rWrote
      ]_vars

\* A stream is open on the session of a served iteration.
C17_Witness ==
    \E u \in Users :
        /\ usr[u].st = "copy" /\ usr[u].it = iter
        /\ session[iter] = "open" /\ pc = "serving"
        /\ encToken = GoodToken
        /\ listeners[iter][usr[u].ad] = "bound"

\* C18: a failed accept of a user connection, with the termination flag not
\* set, starts no handler and leaves the process running: no handler ever
\* runs on the nil connection such an accept returns.
C18_AcceptFailureOnlyLogged == proc # "panic: nil pointer dereference"

\* C19: on the private endpoint, the step in which a handler's dial of its
\* local target fails closes that stream and gives its slot back, and
\* changes nothing else: the session, the transport, the accept loop, the
\* supervisor and every other stream stay as they are.
C19_DialFailureIsLocal ==
    [][\A s \in Streams :
          (strm[s].st = "dial" /\ strm'[s].st = "done") =>
              /\ strm'[s].res = "dialfail"
              /\ strm'[s].localConn = "none"
              /\ rStreamCount' = [rStreamCount EXCEPT ![strm[s].it] = @ - 1]
              /\ rSession' = rSession /\ rTunnelConn' = rTunnelConn
              /\ rpc' = rpc /\ riter' = riter /\ rproc' = "running"
              /\ localIdx' = localIdx
              /\ \A t \in Streams \ {s} : strm'[t] = strm[t]
      ]_vars

\* With a cap of one, a stream is served on the session on which an earlier
\* stream's dial failed.
C19_Witness ==
    \E s, t \in Streams :
        /\ rcfg.cap = 1 /\ riter = 1 /\ rSession = "open"
        /\ strm[s].res = "dialfail"
        /\ strm[t].st = "copy" /\ strm[t].it = 1
        /\ rpc = "loop" /\ rStreamCount[1] = 1

\* ceil(n / k) for k > 0 and n > -k
CeilDiv(n, k) == (n + k - 1) \div k

\* The indexes of cfg.LocalListenAddr.
PickedTargets == 0..(rcfg.targets - 1)

\* The streams of this session that were given target i.
PickedFor(i) == {j \in 1..Len(picks) : picks[j] = i}

\* C20: with K >= 1 local targets, the j-th stream accepted on a session (j
\* from 0) is given target j mod K, so that of the M streams accepted so far
\* target i has been given ceil((M - i) / K).
C20_RoundRobin ==
    rcfg.targets >= 1 =>
        /\ \A j \in 1..Len(picks) : picks[j] = (j - 1) % rcfg.targets
        /\ \A i \in 0..(rcfg.targets - 1) :
               Cardinality(PickedFor(i)) = CeilDiv(Len(picks) - i, rcfg.targets)
        /\ \A s \in Streams :
               strm[s].st \in {"dial", "copy"} => strm[s].target \in PickedTargets

\* More streams than targets were accepted on one session: the index has
\* wrapped around.
C20_Witness ==
    /\ rcfg.targets = MaxTargets /\ MaxTargets >= 2
    /\ Len(picks) = MaxStreams /\ MaxStreams > MaxTargets
    /\ picks[MaxTargets + 1] = 0
    /\ Cardinality(PickedFor(0)) = 2

\* The step in which the supervisor has tried to bind every
\* cfg.UserListenAddr entry.
BindStep ==
    /\ proc' = "running"
    /\ \/ pc = "session_up" /\ pc' # pc
       \/ ~cfg.useMux /\ pc = "authed" /\ pc' # pc

\* The addresses a set of listeners holds.
Bound(ls) == {a \in Addrs : ls[a] = "bound"}

\* C21: on the public endpoint, when the supervisor has tried to bind the
\* user addresses and none is bound (the list may be empty), the iteration is
\* abandoned: the session and the tunnel transport are closed and the
\* supervisor is in the backoff; when some are bound, it goes on to serve
\* with an acceptor on exactly the listeners that bound.
C21_ZeroListenersAbandons ==
    [][BindStep =>
          IF Bound(listeners'[iter]) = {}
          THEN /\ pc' = "backoff"
               /\ tunnelConn'[iter] = "closed"
               /\ session'[iter] # "open"
          ELSE /\ pc' \in {"serving", "wait_done"}
               /\ \A a \in Addrs :
                      acceptor'[iter][a] # "none" <=> a \in Bound(listeners'[iter])
      ]_vars

\* The user connections of iteration i that are being copied to or from its
\* tunnel transport.
Spliced(i) ==
    {u \in Users : usr[u].it = i /\ usr[u].st = "copy"
                   /\ (usr[u].up = "run" \/ usr[u].down = "run")}

\* C22: without yamux, at most one user connection at a time is copied to
\* or from the tunnel transport of an iteration.
C22_OneSpliceAtATime ==
    ~cfg.useMux => \A i \in Iterations : Cardinality(Spliced(i)) <= 1

\* The handlers of the public endpoint that hold a stream, and those of the
\* private endpoint that hold a stream they were started with.
LiveP == {u \in Users : usr[u].st = "copy" /\ usr[u].res = "stream"}
LiveR == {s \in Streams : strm[s].st \in {"dial", "copy"}}

IsPrefix(s, t) == Len(s) <= Len(t) /\ \A j \in 1..Len(s) : s[j] = t[j]

\* Both handlers of the pair have returned.
Settled == relay.pH = "returned" /\ relay.rH = "returned"

\* C24: on a pair whose session stays up, what L has read is always the
\* first part, in order, of what U sent, and what U has read that of what L
\* sent; and once both handlers have returned, an end that has not closed its
\* connection (it may have finished sending) has read everything the other
\* end sent.
C24_ByteFidelity ==
    /\ IsPrefix(wire.lRecv, Sent(wire.uSent))
    /\ IsPrefix(wire.uRecv, Sent(wire.lSent))
    /\ (Settled /\ relay.lEnd # "closed") => wire.lRecv = Sent(wire.uSent)
    /\ (Settled /\ relay.uEnd # "closed") => wire.uRecv = Sent(wire.lSent)

\* What holds of the bytes: order and content, and the direction from L to U
\* in full.
RelayInOrder ==
    /\ IsPrefix(wire.lRecv, Sent(wire.uSent))
    /\ IsPrefix(wire.uRecv, Sent(wire.lSent))
    /\ (Settled /\ relay.uEnd # "closed") => wire.uRecv = Sent(wire.lSent)

\* C25: on the private endpoint with cap > 0, the accept loop goes on to
\* AcceptStream only from a state in which the counter is below the cap, and
\* takes its slot in the same step; no other task ever raises the counter, so
\* that the counter is within the cap while AcceptStream is pending; and while
\* the counter is at the cap the loop stays at its top.
C25_AcceptOnlyBelowCap ==
    [][/\ (rpc # "accepting" /\ rpc' = "accepting") =>
              /\ rcfg.cap > 0 => rStreamCount[riter] < rcfg.cap
              /\ rStreamCount'[riter] = rStreamCount[riter] + 1
       /\ \A i \in Iterations :
              rStreamCount'[i] > rStreamCount[i] =>
                  (i = riter /\ rpc = "loop" /\ rpc' = "accepting")
       /\ (rcfg.cap > 0 /\ rpc = "accepting") => rStreamCount[riter] <= rcfg.cap
       /\ (rcfg.cap > 0 /\ rpc = "loop" /\ rStreamCount[riter] >= rcfg.cap
           /\ rproc' = "running") => rpc' = "loop"
      ]_vars

\* At the cap with a stream of the peer waiting to be accepted: the loop is
\* at its top while the stream that holds the slot is copied.
C25_Witness ==
    \E s, t \in Streams :
        /\ rcfg.cap = 1 /\ rpc = "loop" /\ rSession = "open"
        /\ rStreamCount[riter] = 1
        /\ strm[s].st = "copy" /\ strm[s].it = riter
        /\ strm[t].st = "pending" /\ strm[t].it = riter

\* What iteration i of the public endpoint opened is closed: the tunnel
\* listener, the tunnel transport, the session and the user listeners.
PReleased(i) ==
    /\ tunnelListener # "open"
    /\ tunnelConn[i] \notin {"open", "broken"}
    /\ session[i] # "open"
    /\ \A a \in Addrs : listeners[i][a] # "bound"

\* The same of the private endpoint's iteration under way.
RReleased ==
    /\ rTunnelConn \notin {"open", "broken"}
    /\ rSession # "open"

\* C26: on either endpoint, when the supervisor begins an iteration after
\* the first, everything the iteration before it opened has been closed.
C26_ReleasedBeforeNext ==
    [][/\ (iter >= 1 /\ iter' = iter + 1) => PReleased(iter)
       /\ (riter >= 1 /\ riter' = riter + 1) => RReleased
      ]_vars

\* C27: in the forwarders (simple.go, entry.go), once the handler has
\* received the first completion signal and closed both connections, each of
\* the two copy goroutines that has not exited can take its next step: none
\* is left at a step it can never take (the send of its completion signal,
\* which nothing receives any more).
C27_BothTasksExit ==
    \A c \in Conns, d \in Dirs :
        (fwd[c].h = "returned" /\ fwd[c][d] \in {"copy", "send"})
        => ENABLED (FCopyEnd(c, d) \/ FSendDone(c, d))

\* C28: on the private endpoint with cap > 0, once the tunnel transport has
\* broken while the accept loop is held at its top by cap live streams, the
\* loop eventually leaves (it finds the counter below the cap, AcceptStream
\* fails and the supervisor goes to its backoff), or the process has ended.
C28_BreakFreesTheLoop ==
    (/\ rcfg.cap > 0 /\ rpc = "loop"
     /\ RAtCap(rStreamCount[riter])
     /\ rTunnelConn \in {"broken", "closed"})
        ~> (rpc \notin {"loop", "accepting"} \/ ~RRunning)

\* The handlers of R's iteration i between their increment and their
\* decrement, and the slot an AcceptStream in progress holds.
RInFlight(i) ==
    {s \in Streams : strm[s].it = i /\ strm[s].st \in {"dial", "copy"}}
RPendingAccept(i) == IF rpc = "accepting" /\ riter = i THEN 1 ELSE 0

\* C29: on both endpoints the concurrency counter is never negative and
\* counts exactly the handlers between their increment and their decrement
\* (on R, plus the AcceptStream in progress): every increment is given back
\* once on every path, and with nobody in between the counter is 0.
C29_CounterBalanced ==
    /\ cfg.rev = 2 =>
           \A i \in Iterations :
               /\ streamCount[i] >= 0
               /\ streamCount[i] = Cardinality(Admitted(i))
    /\ \A i \in Iterations :
           /\ rStreamCount[i] >= 0
           /\ rStreamCount[i] = Cardinality(RInFlight(i)) + RPendingAccept(i)

\* C29 witness: R's first accept loop has ended on an AcceptStream error
\* after one handler returned from a failed dial and another from its
\* copy, and its counter is back at 0.
C29_Witness ==
    /\ riter = 2 /\ rStreamCount[1] = 0
    /\ rErrLog[1] = "Failed to accept yamux stream"
    /\ \E s, t \in Streams :
           /\ strm[s].st = "done" /\ strm[s].res = "dialfail"
           /\ strm[t].st = "done" /\ strm[t].res = "copied"

\* C30: a tunnel peer that has connected to the public endpoint and sent
\* fewer than 256 bytes cannot hold the supervisor in the handshake for
\* ever: the supervisor eventually leaves the handshake (it abandons the
\* transport and goes on to its backoff and the next accept), or the
\* process has ended.
C30_ShortHandshakeAbandoned ==
    (Running /\ pc = "handshake" /\ encToken.len < EncTokenLen)
        ~> (pc # "handshake" \/ ~Running)

\* C31: without yamux, once the tunnel transport of the iteration the
\* supervisor waits in is closed or broken, the supervisor eventually leaves
\* its wait (it closes tunnelConn and goes to its sleep and the next
\* iteration), or the process has ended; also when the one read of the
\* watching goroutine returned a byte before the transport failed.
C31_TunnelEndWakesSupervisor ==
    (/\ Running /\ ~cfg.useMux /\ pc = "wait_done"
     /\ tunnelConn[iter] \in {"broken", "closed"})
        ~> (pc # "wait_done" \/ ~Running)

\* The bytes written to the user connections, whichever user got them.
TapDelivered == UNION {{tap.uRecv[u][j] : j \in 1..Len(tap.uRecv[u])} : u \in Users}
TapUnread == {tap.tunnel[j] : j \in 1..Len(tap.tunnel)}

\* C32: without yamux every byte the private endpoint has written on the
\* tunnel is still unread or has been written to a user connection; the
\* goroutine that watches the tunnel has taken none.
C32_WatcherTakesNoPayload ==
    /\ tap.buf = <<>>
    /\ TapDelivered \cup TapUnread = 1..tap.rSent

\* C33: without yamux the private endpoint dials target 0 and no other, in
\* every iteration of its supervisor, whatever the number of targets.
C33_OnlyTargetZero ==
    ~rcfg.useMux =>
        /\ \A j \in 1..Len(picks) : picks[j] = 0
        /\ \A s \in Streams : strm[s].st # "none" => strm[s].target = 0

\* C33 witness: two targets configured, the second iteration has dialled and
\* both iterations picked target 0.
C33_Witness ==
    /\ ~rcfg.useMux /\ rcfg.targets = 2
    /\ riter = 2 /\ rpc = "splice"
    /\ picks = <<0, 0>>

\* The step in which AcceptStream has returned a stream and the loop has
\* picked its target.
AcceptedStep == rpc = "accepting" /\ rpc' = "loop" /\ rproc' = "running"

\* C34: on the private endpoint with yamux and K >= 1 targets, the
\* round-robin index is in 0..K-1; it advances by one (modulo K) in the step
\* that accepts a stream and in no other, so not with the outcome of the
\* dial; a new session starts it at 0, so the first stream of every session
\* is given target 0.
C34_IndexPerSession ==
    [][(rcfg.useMux /\ rcfg.targets >= 1 /\ rproc' = "running") =>
          /\ localIdx \in 0..(rcfg.targets - 1)
          /\ localIdx' \in 0..(rcfg.targets - 1)
          /\ AcceptedStep =>
                 /\ localIdx' = (localIdx + 1) % rcfg.targets
                 /\ picks' = Append(picks, localIdx)
          /\ (rSession # "open" /\ rSession' = "open") =>
                 localIdx' = 0 /\ picks' = <<>>
          /\ (~AcceptedStep /\ ~(rSession # "open" /\ rSession' = "open")) =>
                 localIdx' = localIdx /\ picks' = picks
          /\ Len(picks') >= 1 => picks'[1] = 0
    ]_vars

\* C34 witness: two targets; the first session accepted one stream and left
\* the index at 1; the first stream of the second session has target 0.
C34_Witness ==
    /\ rcfg.useMux /\ rcfg.targets = 2 /\ riter = 2
    /\ picks = <<0>> /\ localIdx = 1
    /\ \E s, t \in Streams :
           /\ strm[s].it = 1 /\ strm[s].st = "copy" /\ strm[s].target = 0
           /\ strm[t].it = 2 /\ strm[t].st \in {"dial", "copy"}
           /\ strm[t].target = 0
           /\ \A x \in Streams \ {s, t} : strm[x].st = "none"

\* C35: the private endpoint never ends in an index-out-of-range panic: with
\* an empty localListenAddr neither the target selection for an accepted
\* stream nor the one of the branch without yamux indexes the list.
C35_NoIndexPanic == rproc # "panic: index out of range"

\* C36: with useMux = false and more than one userListenAddr entry the
\* public endpoint refuses the configuration before it serves: it binds no
\* user listener on it, so never several whose acceptors splice onto the one
\* tunnel transport, and no handler splices a user connection.
C36_SpliceConfigRejected ==
    (~cfg.useMux /\ Cardinality(cfg.addrs) > 1) =>
        \A i \in Iterations :
            /\ Bound(listeners[i]) = {}
            /\ Spliced(i) = {}

====
